---- MODULE Spec2Model ----
(***************************************************************************)
(* A model of holydocs/dberd: the canonical Schema model with Schema.Sort  *)
(* (dberd.go), the SQL extractors' row grouping, the targets' FormatSchema *)
(* and the cmd/dberd orchestrator.                                         *)
(*                                                                         *)
(* Go strings are sequences of byte values, compared as Go compares them.  *)
(* A Go slice is a record [isNil, items]: a nil slice and an empty non-nil *)
(* slice have the same items (none) and differ in isNil.                   *)
(***************************************************************************)
EXTENDS Naturals, Integers, Sequences, FiniteSets, TLC

(***************************************************************************)
(* Bounds of the model.                                                    *)
(***************************************************************************)
\* most Tables in a Schema handed to Sort
MaxTables == 2
\* most Columns in a Schema handed to Sort, summed over its Tables
MaxCols == 2
\* most References in a Schema handed to Sort
MaxRefs == 2
\* most consecutive calls of Sort on one Schema
MaxSortCalls == 2

\* the rows of the tables query of a catalog
MaxRows == 2

\* the calls made on a Source or a Target used as a library
MaxCalls == 2

\* the rows of a sequence handed to tableRowsToSchemaTables directly
MaxRowSeq == 3

\* the distance from either end of the data of the lengths at which a failed
\* write is stopped
MaxWritten == 1

(***************************************************************************)
(* What the calls on a Source or Target used as a library have returned,  *)
(* in the order of the calls.                                              *)
(***************************************************************************)
VARIABLES
    results     \* one record for each call made so far

(***************************************************************************)
(* Go values.                                                              *)
(***************************************************************************)
\* a nil slice
NilSlice == [isNil |-> TRUE, items |-> <<>>]

\* a non-nil slice holding the elements of s
MkSlice(s) == [isNil |-> FALSE, items |-> s]

\* a < b on Go strings: byte-wise lexicographic, a proper prefix is smaller
StrLess(a, b) ==
    \E k \in 1..(Len(a) + 1) :
        /\ \A i \in 1..(k - 1) : i <= Len(b) /\ a[i] = b[i]
        /\ \/ k = Len(a) + 1 /\ k <= Len(b)
           \/ k <= Len(a) /\ k <= Len(b) /\ a[k] < b[k]

\* dberd.Column
Column(name, comment, definition, isPrimary) ==
    [Name |-> name, Comment |-> comment, Definition |-> definition,
     IsPrimary |-> isPrimary]

\* dberd.Table
Table(name, columns) == [Name |-> name, Columns |-> columns]

\* dberd.TableColumn
TableColumn(table, column) == [Table |-> table, Column |-> column]

\* dberd.Reference
Reference(source, target) == [Source |-> source, Target |-> target]

\* dberd.Schema
Schema(tables, references) == [Tables |-> tables, References |-> references]

(***************************************************************************)
(* The three less functions of Schema.Sort.                                *)
(***************************************************************************)
\* TableLess with <= written for <
TableLessOrEqual(a, b) == ~StrLess(b.Name, a.Name)

\* strings.ToLower on an ASCII string
ToLower(a) ==
    [i \in DOMAIN a |-> IF a[i] >= 65 /\ a[i] <= 90 THEN a[i] + 32 ELSE a[i]]

\* TableLess comparing the names without regard to case
TableLessFold(a, b) == StrLess(ToLower(a.Name), ToLower(b.Name))

\* the less function of sort.Slice(s.Tables, ...)
TableLess(a, b) == StrLess(a.Name, b.Name)

\* ColumnLess without the IsPrimary test
ColumnLessNameOnly(a, b) == StrLess(a.Name, b.Name)

\* ColumnLess without the comparison of names
ColumnLessPrimaryOnly(a, b) == a.IsPrimary /\ ~b.IsPrimary

\* the less function of sort.Slice(s.Tables[i].Columns, ...)
ColumnLess(a, b) ==
    IF a.IsPrimary # b.IsPrimary
    THEN a.IsPrimary
    ELSE StrLess(a.Name, b.Name)

\* ReferenceLess without its last key
ReferenceLessThreeKeys(a, b) ==
    CASE a.Source.Table # b.Source.Table ->
            StrLess(a.Source.Table, b.Source.Table)
      [] a.Source.Table = b.Source.Table
         /\ a.Source.Column # b.Source.Column ->
            StrLess(a.Source.Column, b.Source.Column)
      [] OTHER -> StrLess(a.Target.Table, b.Target.Table)

\* ReferenceLess with the target's column compared before the target's table
ReferenceLessColumnFirst(a, b) ==
    CASE a.Source.Table # b.Source.Table ->
            StrLess(a.Source.Table, b.Source.Table)
      [] a.Source.Table = b.Source.Table
         /\ a.Source.Column # b.Source.Column ->
            StrLess(a.Source.Column, b.Source.Column)
      [] a.Source.Table = b.Source.Table
         /\ a.Source.Column = b.Source.Column
         /\ a.Target.Column # b.Target.Column ->
            StrLess(a.Target.Column, b.Target.Column)
      [] OTHER -> StrLess(a.Target.Table, b.Target.Table)

\* the less function of sort.Slice(s.References, ...)
ReferenceLess(a, b) ==
    CASE a.Source.Table # b.Source.Table ->
            StrLess(a.Source.Table, b.Source.Table)
      [] a.Source.Table = b.Source.Table
         /\ a.Source.Column # b.Source.Column ->
            StrLess(a.Source.Column, b.Source.Column)
      [] a.Source.Table = b.Source.Table
         /\ a.Source.Column = b.Source.Column
         /\ a.Target.Table # b.Target.Table ->
            StrLess(a.Target.Table, b.Target.Table)
      [] OTHER -> StrLess(a.Target.Column, b.Target.Column)

(***************************************************************************)
(* sort.Slice.  For a slice of at most 12 elements the Go runtime sorts by *)
(* insertion: element i is swapped leftwards while less(j, j-1) holds.     *)
(***************************************************************************)
\* the less function each of the three sort.Slice calls of Sort is given
Less(kind, a, b) ==
    CASE kind = "Tables" -> TableLess(a, b)
      [] kind = "Columns" -> ColumnLess(a, b)
      [] kind = "References" -> ReferenceLess(a, b)

\* the largest member of a non-empty set of naturals
MaxOf(S) == CHOOSE m \in S : \A n \in S : n <= m

\* one pass of the inner loop: x, appended to the sorted prefix, moves left
\* past every element it is less than and stops at the first it is not
Insert(sorted, x, kind) ==
    LET stops == {k \in 1..Len(sorted) : ~Less(kind, x, sorted[k])}
        p == IF stops = {} THEN 0 ELSE MaxOf(stops)
    IN  SubSeq(sorted, 1, p) \o <<x>> \o SubSeq(sorted, p + 1, Len(sorted))

\* the outer loop over the elements of s
InsertionSort(s, kind) ==
    LET f[i \in 0..Len(s)] ==
            IF i = 0 THEN <<>> ELSE Insert(f[i - 1], s[i], kind)
    IN  f[Len(s)]

\* sort.Slice(x, less): sorts the backing array in place; the slice header,
\* and with it nil-ness, is left as it is
SortSlice(sl, kind) ==
    [isNil |-> sl.isNil, items |-> InsertionSort(sl.items, kind)]

(***************************************************************************)
(* Schema.Sort.                                                            *)
(***************************************************************************)
\* SortTables sorting a fresh copy: the result is never nil
SortTablesCopy(sl) == MkSlice(InsertionSort(sl.items, "Tables"))

\* sort.Slice(s.Tables, ...)
SortTables(sl) == SortSlice(sl, "Tables")

\* sort.Slice(s.Tables[i].Columns, ...) for one Table
SortColumns(t) == Table(t.Name, SortSlice(t.Columns, "Columns"))

\* s without each element that equals its predecessor (slices.Compact)
Compact(s) ==
    LET keep == {i \in DOMAIN s : i = 1 \/ s[i] # s[i - 1]}
        f[i \in 0..Len(s)] ==
            IF i = 0 THEN <<>>
            ELSE IF i \in keep THEN Append(f[i - 1], s[i]) ELSE f[i - 1]
    IN  f[Len(s)]

\* SortReferences followed by the removal of repeated References
SortReferencesCompact(sl) ==
    [isNil |-> sl.isNil,
     items |-> Compact(InsertionSort(sl.items, "References"))]

\* sort.Slice(s.References, ...)
SortReferences(sl) == SortSlice(sl, "References")

\* func (s *Schema) Sort(): the Tables by name, then each Table's Columns,
\* then the References
Sort(s) ==
    LET byName == SortTables(s.Tables)
        tables == [isNil |-> byName.isNil,
                   items |-> [i \in DOMAIN byName.items |->
                                 SortColumns(byName.items[i])]]
    IN  Schema(tables, SortReferences(s.References))

(***************************************************************************)
(* Text.  Byte strings are written out as their byte values; the comment   *)
(* above each gives the text.                                              *)
(***************************************************************************)
\* the concatenation of the byte strings of the sequence ss
RECURSIVE Concat(_)
Concat(ss) == IF ss = <<>> THEN <<>> ELSE Head(ss) \o Concat(Tail(ss))

\* the byte strings of ss with sep between each two (strings.Join)
RECURSIVE Join(_, _)
Join(ss, sep) ==
    IF ss = <<>> THEN <<>>
    ELSE IF Len(ss) = 1 THEN Head(ss)
    ELSE Head(ss) \o sep \o Join(Tail(ss), sep)

\* "\n" followed by n levels of the two-space indent of MarshalIndent
Indent(n) == <<10>> \o [i \in 1..(2 * n) |-> 32]

(***************************************************************************)
(* encoding/json on the Schema types, as json.MarshalIndent(s, "", "  ")   *)
(* writes them: the fields in declaration order under their json tags, a   *)
(* nil slice as null, an empty slice as [], "comment" left out when empty. *)
(***************************************************************************)
\* true
JSONTrue == <<116, 114, 117, 101>>

\* false
JSONFalse == <<102, 97, 108, 115, 101>>

\* null
JSONNull == <<110, 117, 108, 108>>

\* the json tag "name"
Key_name == <<110, 97, 109, 101>>

\* the json tag "comment"
Key_comment == <<99, 111, 109, 109, 101, 110, 116>>

\* the json tag "definition"
Key_definition == <<100, 101, 102, 105, 110, 105, 116, 105, 111, 110>>

\* the json tag "is_primary"
Key_is_primary == <<105, 115, 95, 112, 114, 105, 109, 97, 114, 121>>

\* the json tag "columns"
Key_columns == <<99, 111, 108, 117, 109, 110, 115>>

\* the json tag "table"
Key_table == <<116, 97, 98, 108, 101>>

\* the json tag "column"
Key_column == <<99, 111, 108, 117, 109, 110>>

\* the json tag "source"
Key_source == <<115, 111, 117, 114, 99, 101>>

\* the json tag "target"
Key_target == <<116, 97, 114, 103, 101, 116>>

\* the json tag "tables"
Key_tables == <<116, 97, 98, 108, 101, 115>>

\* the json tag "references"
Key_references == <<114, 101, 102, 101, 114, 101, 110, 99, 101, 115>>

\* one byte of a string inside a JSON string: the quote and the backslash
\* escaped with a backslash; <, > and & as \u003c, \u003e and \u0026
JSONByte(b) ==
    CASE b = 34 -> <<92, 34>>
      [] b = 92 -> <<92, 92>>
      [] b = 60 -> <<92, 117, 48, 48, 51, 99>>
      [] b = 62 -> <<92, 117, 48, 48, 51, 101>>
      [] b = 38 -> <<92, 117, 48, 48, 50, 54>>
      [] OTHER -> <<b>>

\* a Go string of printable ASCII as a JSON string
JSONString(a) == <<34>> \o Concat([i \in DOMAIN a |-> JSONByte(a[i])]) \o <<34>>

\* a bool
JSONBool(b) == IF b THEN JSONTrue ELSE JSONFalse

\* the object with the given members (key text, value text), at depth n
JSONObject(members, n) ==
    <<123>>
    \o Join([i \in DOMAIN members |->
                Indent(n + 1) \o JSONString(members[i][1]) \o <<58, 32>>
                    \o members[i][2]],
            <<44>>)
    \o Indent(n) \o <<125>>

\* the array of a slice whose elements are already encoded, at depth n
JSONArray(isNil, elems, n) ==
    IF isNil THEN JSONNull
    ELSE IF elems = <<>> THEN <<91, 93>>
    ELSE <<91>>
         \o Join([i \in DOMAIN elems |-> Indent(n + 1) \o elems[i]], <<44>>)
         \o Indent(n) \o <<93>>

\* a Column at depth n
JSONColumn(c, n) ==
    JSONObject(
        << <<Key_name, JSONString(c.Name)>> >>
        \o (IF c.Comment = <<>> THEN <<>>
            ELSE << <<Key_comment, JSONString(c.Comment)>> >>)
        \o << <<Key_definition, JSONString(c.Definition)>>,
              <<Key_is_primary, JSONBool(c.IsPrimary)>> >>,
        n)

\* a Table at depth n
JSONTable(t, n) ==
    JSONObject(
        << <<Key_name, JSONString(t.Name)>>,
           <<Key_columns,
             JSONArray(t.Columns.isNil,
                       [i \in DOMAIN t.Columns.items |->
                           JSONColumn(t.Columns.items[i], n + 2)],
                       n + 1)>> >>,
        n)

\* a TableColumn at depth n
JSONTableColumn(tc, n) ==
    JSONObject(<< <<Key_table, JSONString(tc.Table)>>,
                  <<Key_column, JSONString(tc.Column)>> >>, n)

\* a Reference at depth n
JSONReference(r, n) ==
    JSONObject(<< <<Key_source, JSONTableColumn(r.Source, n + 1)>>,
                  <<Key_target, JSONTableColumn(r.Target, n + 1)>> >>, n)

\* json.MarshalIndent(s, "", "  ") of a Schema
JSONSchema(s) ==
    JSONObject(
        << <<Key_tables,
             JSONArray(s.Tables.isNil,
                       [i \in DOMAIN s.Tables.items |->
                           JSONTable(s.Tables.items[i], 2)],
                       1)>>,
           <<Key_references,
             JSONArray(s.References.isNil,
                       [i \in DOMAIN s.References.items |->
                           JSONReference(s.References.items[i], 2)],
                       1)>> >>,
        0)

(***************************************************************************)
(* text/template targets.  The d2 template writes the schema.d2 the README *)
(* shows: a header, each Table with its Columns in slice order, then each  *)
(* Reference in slice order.  The plantuml and mermaid templates are not   *)
(* part of the sources read: what they write is kept as a term.            *)
(***************************************************************************)
\* "direction: right\n\n# Tables\n"
D2Header == <<100, 105, 114, 101, 99, 116, 105, 111, 110, 58, 32, 114, 105, 103, 104, 116, 10, 10, 35, 32, 84, 97, 98, 108, 101, 115, 10>>

\* ": {\n  shape: \"sql_table\"\n"
D2TableOpen == <<58, 32, 123, 10, 32, 32, 115, 104, 97, 112, 101, 58, 32, 34, 115, 113, 108, 95, 116, 97, 98, 108, 101, 34, 10>>

\* " { constraint: [primary_key] }"
D2PrimaryKey == <<32, 123, 32, 99, 111, 110, 115, 116, 114, 97, 105, 110, 116, 58, 32, 91, 112, 114, 105, 109, 97, 114, 121, 95, 107, 101, 121, 93, 32, 125>>

\* "}\n"
D2TableClose == <<125, 10>>

\* "\n# References\n"
D2ReferencesHeader == <<10, 35, 32, 82, 101, 102, 101, 114, 101, 110, 99, 101, 115, 10>>

\* " -> "
D2Arrow == <<32, 45, 62, 32>>

\* one Column line of schema.d2
D2Column(c) ==
    <<32, 32>> \o c.Name \o <<58, 32, 34>> \o c.Definition \o <<34>>
    \o (IF c.IsPrimary THEN D2PrimaryKey ELSE <<>>) \o <<10>>

\* one Table block of schema.d2
D2Table(t) ==
    t.Name \o D2TableOpen
    \o Concat([i \in DOMAIN t.Columns.items |-> D2Column(t.Columns.items[i])])
    \o D2TableClose

\* one Reference line of schema.d2
D2Reference(r) ==
    r.Source.Table \o <<46>> \o r.Source.Column \o D2Arrow
    \o r.Target.Table \o <<46>> \o r.Target.Column \o <<10>>

\* t.template.Execute(&buf, s) of the d2 target
D2Text(s) ==
    D2Header
    \o Concat([i \in DOMAIN s.Tables.items |-> D2Table(s.Tables.items[i])])
    \o D2ReferencesHeader
    \o Concat([i \in DOMAIN s.References.items |->
                  D2Reference(s.References.items[i])])

\* what t.template.Execute(&buf, s) of the plantuml and mermaid targets
\* leaves in the buffer: the text of their templates is not known, so the
\* bytes are kept as a term of the template and the Schema it is executed on
TemplateOutput(target, s) == <<"schema.tmpl", target, s>>

\* RenderSchema whose targets without rendering return no bytes and no error
RenderSchemaEmptySuccess(target, fs, fault) ==
    IF target # "d2"
    THEN [out |-> <<>>, err |-> <<>>, compiled |-> FALSE]
    ELSE IF fs.Type # "d2"
    THEN [out |-> <<>>, err |-> <<"UnsupportedFormatError", fs.Type, "d2">>,
          compiled |-> FALSE]
    ELSE IF fault = "compile"
    THEN [out |-> <<>>, err |-> <<"compiling diagram", "d2">>,
          compiled |-> TRUE]
    ELSE IF fault = "render"
    THEN [out |-> <<>>, err |-> <<"rendering diagram", "d2">>,
          compiled |-> TRUE]
    ELSE [out |-> <<"svg", fs.Data>>, err |-> <<>>, compiled |-> TRUE]

\* RenderSchema whose d2 target compiles before it looks at the Type
RenderSchemaCompileFirst(target, fs, fault) ==
    IF target # "d2"
    THEN [out |-> <<>>, err |-> <<"unsupported">>, compiled |-> FALSE]
    ELSE IF fault = "compile"
    THEN [out |-> <<>>, err |-> <<"compiling diagram", "d2">>,
          compiled |-> TRUE]
    ELSE IF fs.Type # "d2"
    THEN [out |-> <<>>, err |-> <<"UnsupportedFormatError", fs.Type, "d2">>,
          compiled |-> TRUE]
    ELSE IF fault = "render"
    THEN [out |-> <<>>, err |-> <<"rendering diagram", "d2">>,
          compiled |-> TRUE]
    ELSE [out |-> <<"svg", fs.Data>>, err |-> <<>>, compiled |-> TRUE]

\* RenderSchema whose d2 target reports a wrong Type as plain "unsupported"
RenderSchemaGenericMismatch(target, fs, fault) ==
    IF target # "d2"
    THEN [out |-> <<>>, err |-> <<"unsupported">>, compiled |-> FALSE]
    ELSE IF fs.Type # "d2"
    THEN [out |-> <<>>, err |-> <<"unsupported">>, compiled |-> FALSE]
    ELSE IF fault = "compile"
    THEN [out |-> <<>>, err |-> <<"compiling diagram", "d2">>,
          compiled |-> TRUE]
    ELSE IF fault = "render"
    THEN [out |-> <<>>, err |-> <<"rendering diagram", "d2">>,
          compiled |-> TRUE]
    ELSE [out |-> <<"svg", fs.Data>>, err |-> <<>>, compiled |-> TRUE]

(***************************************************************************)
(* The targets: Capabilities, FormatSchema, RenderSchema.  An error is the *)
(* sequence of its messages, outermost first; no error is <<>>.            *)
(***************************************************************************)
\* the type tags pickTarget knows
TargetTypes == {"d2", "plantuml", "json", "mermaid"}
\* the steps of NewTarget that can fail: template.ParseFS in the template
\* targets, and textmeasure.NewRuler in d2; json's NewTarget has no error
NewTargetFaults(target) ==
    {"none"}
    \cup (IF target \in {"d2", "plantuml", "mermaid"} THEN {"parse"} ELSE {})
    \cup (IF target = "d2" THEN {"ruler"} ELSE {})

\* Capabilities() of each target
Capabilities(target) ==
    [Format |-> TRUE, Render |-> target = "d2"]

\* the Data FormatSchema writes
FormatData(target, s) ==
    CASE target = "json" -> JSONSchema(s)
      [] target = "d2" -> D2Text(s)
      [] OTHER -> TemplateOutput(target, s)

\* FormatSchema(ctx, s): the FormattedSchema and the error; executeFails says
\* whether template.Execute returns an error (the json target has none)
FormatSchema(target, s, executeFails) ==
    IF target # "json" /\ executeFails
    THEN [fs |-> [Type |-> "", Data |-> <<>>],
          err |-> <<"executing template", "template">>]
    ELSE [fs |-> [Type |-> target, Data |-> FormatData(target, s)],
          err |-> <<>>]

\* whether template.Execute may return an error on s: the template is fixed
\* when the Target is made and writes into a buffer of the call's own, so a
\* Schema formatted before fails now exactly when it failed then; on a
\* Schema not formatted before either may happen; json executes no template
ExecuteOutcomes(target, s) ==
    LET earlier == {results[i].executeFails :
                        i \in {j \in DOMAIN results :
                                   /\ results[j].op = "FormatSchema"
                                   /\ results[j].schema = s}}
    IN  IF target = "json" THEN {FALSE}
        ELSE IF earlier = {} THEN BOOLEAN ELSE earlier

\* what d2lib.Compile and d2svg.Render may do: both succeed, the compiler
\* returns an error, the renderer returns an error
RenderFaults == {"none", "compile", "render"}

\* RenderSchema(ctx, fs): the bytes, the error and whether d2lib.Compile was
\* called; fault says which of the d2 library calls returns an error
RenderSchema(target, fs, fault) ==
    IF target # "d2"
    THEN [out |-> <<>>, err |-> <<"unsupported">>, compiled |-> FALSE]
    ELSE IF fs.Type # "d2"
    THEN [out |-> <<>>, err |-> <<"UnsupportedFormatError", fs.Type, "d2">>,
          compiled |-> FALSE]
    ELSE IF fault = "compile"
    THEN [out |-> <<>>, err |-> <<"compiling diagram", "d2">>,
          compiled |-> TRUE]
    ELSE IF fault = "render"
    THEN [out |-> <<>>, err |-> <<"rendering diagram", "d2">>,
          compiled |-> TRUE]
    ELSE [out |-> <<"svg", fs.Data>>, err |-> <<>>, compiled |-> TRUE]

(***************************************************************************)
(* The SQL sources of cmd/dberd: cockroach and clickhouse.  A *string is a *)
(* record [isNil, val].                                                    *)
(***************************************************************************)
\* a nil *string
NilString == [isNil |-> TRUE, val |-> <<>>]

\* a *string pointing at a
Ptr(a) == [isNil |-> FALSE, val |-> a]

\* " NOT NULL"
NotNull == <<32, 78, 79, 84, 32, 78, 85, 76, 76>>

\* " DEFAULT "
Default == <<32, 68, 69, 70, 65, 85, 76, 84, 32>>

\* "NO"
No == <<78, 79>>

\* tableKey := row.tableSchema + "." + row.tableName
TableKey(row) == row.tableSchema \o <<46>> \o row.tableName

\* the definition string built from a row; clickhouse rows carry no
\* isNullable
ColumnDefinition(kind, row) ==
    row.dataType
    \o (IF kind # "clickhouse" /\ row.isNullable = No THEN NotNull ELSE <<>>)
    \o (IF ~row.columnDefault.isNil /\ row.columnDefault.val # <<>>
        THEN Default \o row.columnDefault.val ELSE <<>>)

\* the dberd.Column built from a row
RowColumn(kind, row) ==
    Column(row.columnName,
           IF row.columnComment.isNil THEN <<>> ELSE row.columnComment.val,
           ColumnDefinition(kind, row),
           row.isPrimary)
\* the Columns put, row after row, in front of those the Table already has
ColumnsOfKeyNewestFirst(kind, rows, key) ==
    LET f[i \in 0..Len(rows)] ==
            IF i = 0 THEN <<>>
            ELSE IF TableKey(rows[i]) = key
                 THEN <<RowColumn(kind, rows[i])>> \o f[i - 1]
                 ELSE f[i - 1]
    IN  f[Len(rows)]

\* the Columns appended, row after row, to the Table with the given key
ColumnsOfKey(kind, rows, key) ==
    LET f[i \in 0..Len(rows)] ==
            IF i = 0 THEN <<>>
            ELSE IF TableKey(rows[i]) = key
                 THEN Append(f[i - 1], RowColumn(kind, rows[i]))
                 ELSE f[i - 1]
    IN  f[Len(rows)]

\* tableMap after the loop over the rows
TableMap(kind, rows) ==
    [key \in {TableKey(rows[i]) : i \in DOMAIN rows} |->
        Table(key, MkSlice(ColumnsOfKey(kind, rows, key)))]

\* the orders in which `for _, table := range tableMap` may visit the keys
MapOrders(keys) ==
    {q \in [1..Cardinality(keys) -> keys] :
        \A i, j \in 1..Cardinality(keys) : q[i] = q[j] => i = j}
\* a conversion that groups adjacent rows only: a new Table starts at every
\* row whose key differs from that of the row before
tableRowsToSchemaTablesAdjacent(kind, rows, order) ==
    LET starts == {i \in DOMAIN rows :
                      i = 1 \/ TableKey(rows[i]) # TableKey(rows[i - 1])}
        nth(k) == CHOOSE i \in starts :
                      Cardinality({j \in starts : j <= i}) = k
        last(i) == CHOOSE j \in i..Len(rows) :
                      /\ \A k \in i..j : TableKey(rows[k]) = TableKey(rows[i])
                      /\ j = Len(rows) \/ TableKey(rows[j + 1]) # TableKey(rows[i])
    IN  MkSlice([k \in 1..Cardinality(starts) |->
            Table(TableKey(rows[nth(k)]),
                  MkSlice([c \in 1..(last(nth(k)) - nth(k) + 1) |->
                      RowColumn(kind, rows[nth(k) + c - 1])]))])

\* tableRowsToSchemaTables(tableRows), the map visited in the given order
tableRowsToSchemaTables(kind, rows, order) ==
    MkSlice([i \in DOMAIN order |-> TableMap(kind, rows)[order[i]]])

\* referenceRowsToSchemaReferences(referenceRows)
referenceRowsToSchemaReferences(rows) ==
    MkSlice([i \in DOMAIN rows |->
        Reference(
            TableColumn(rows[i].sourceSchema \o <<46>> \o rows[i].sourceTable,
                        rows[i].sourceColumn),
            TableColumn(rows[i].targetSchema \o <<46>> \o rows[i].targetTable,
                        rows[i].targetColumn))])

\* the steps of a query that can fail: QueryContext, rows.Scan (when there is
\* a row to scan), rows.Err
QueryFaults(rows) ==
    {"none", "query", "rows"} \cup (IF rows = <<>> THEN {} ELSE {"scan"})

\* extractTables(ctx): the Tables and the error
extractTables(kind, rows, order, fault) ==
    CASE fault = "query" ->
            [val |-> NilSlice, err |-> <<"querying tables", "driver">>]
      [] fault = "scan" ->
            [val |-> NilSlice, err |-> <<"scanning tables row", "driver">>]
      [] fault = "rows" ->
            [val |-> NilSlice, err |-> <<"tables rows error", "driver">>]
      [] OTHER ->
            [val |-> tableRowsToSchemaTables(kind, rows, order), err |-> <<>>]

\* extractReferences(ctx): the References and the error
extractReferences(rows, fault) ==
    CASE fault = "query" ->
            [val |-> NilSlice, err |-> <<"querying references", "driver">>]
      [] fault = "scan" ->
            [val |-> NilSlice, err |-> <<"scanning references row", "driver">>]
      [] fault = "rows" ->
            [val |-> NilSlice, err |-> <<"references rows error", "driver">>]
      [] OTHER ->
            [val |-> referenceRowsToSchemaReferences(rows), err |-> <<>>]

\* ExtractSchema that returns the Tables it has when the references fail
CockroachExtractSchemaPartial(catalog, order, tablesFault, referencesFault) ==
    LET tables == extractTables("cockroach", catalog.tables, order, tablesFault)
        references == extractReferences(catalog.references, referencesFault)
    IN  IF tables.err # <<>>
        THEN [schema |-> Schema(NilSlice, NilSlice),
              err |-> <<"extracting tables">> \o tables.err,
              queries |-> <<"tables">>]
        ELSE IF references.err # <<>>
        THEN [schema |-> Schema(tables.val, NilSlice),
              err |-> <<"extracting references">> \o references.err,
              queries |-> <<"tables", "references">>]
        ELSE [schema |-> Schema(tables.val, references.val), err |-> <<>>,
              queries |-> <<"tables", "references">>]

\* ExtractSchema(ctx) of the cockroach source: the Schema, the error and the
\* queries it sent, in order
CockroachExtractSchema(catalog, order, tablesFault, referencesFault) ==
    LET tables == extractTables("cockroach", catalog.tables, order, tablesFault)
        references == extractReferences(catalog.references, referencesFault)
    IN  IF tables.err # <<>>
        THEN [schema |-> Schema(NilSlice, NilSlice),
              err |-> <<"extracting tables">> \o tables.err,
              queries |-> <<"tables">>]
        ELSE IF references.err # <<>>
        THEN [schema |-> Schema(NilSlice, NilSlice),
              err |-> <<"extracting references">> \o references.err,
              queries |-> <<"tables", "references">>]
        ELSE [schema |-> Schema(tables.val, references.val), err |-> <<>>,
              queries |-> <<"tables", "references">>]

\* ExtractSchema(ctx) of the clickhouse source: the Tables only
ClickhouseExtractSchema(catalog, order, tablesFault) ==
    LET tables == extractTables("clickhouse", catalog.tables, order, tablesFault)
    IN  IF tables.err # <<>>
        THEN [schema |-> Schema(NilSlice, NilSlice),
              err |-> <<"extracting tables">> \o tables.err,
              queries |-> <<"tables">>]
        ELSE [schema |-> Schema(tables.val, NilSlice), err |-> <<>>,
              queries |-> <<"tables">>]

\* source.ExtractSchema(ctx) for the source main picked
ExtractSchema(kind, catalog, order, tablesFault, referencesFault) ==
    IF kind = "cockroach"
    THEN CockroachExtractSchema(catalog, order, tablesFault, referencesFault)
    ELSE ClickhouseExtractSchema(catalog, order, tablesFault)

(***************************************************************************)
(* The Schemas handed to Sort.  Names are the byte strings of "Z", "a",    *)
(* "ab", "id", "name", "int" and "text"; duplicate names are allowed, as   *)
(* the Go types allow them.                                                *)
(***************************************************************************)
\* "Z", "a", "ab": an upper-case name, a lower-case one, and an extension
TableNames == { <<90>>, <<97>>, <<97, 98>> }

\* "id", "name"
ColumnNames == { <<105, 100>>, <<110, 97, 109, 101>> }

\* "int", "text"
Definitions == { <<105, 110, 116>>, <<116, 101, 120, 116>> }

\* every dberd.Column over these names, with no comment
Columns ==
    { Column(n, <<>>, d, p) : n \in ColumnNames, d \in Definitions,
                              p \in BOOLEAN }

\* every dberd.Reference between the tables "Z" and "a"
References ==
    LET ends == { TableColumn(t, c) : t \in { <<90>>, <<97>> },
                                      c \in ColumnNames }
    IN  { Reference(s, t) : s \in ends, t \in ends }

\* the sequences over S of length at most n
SeqsUpTo(S, n) == UNION { [1..k -> S] : k \in 0..n }

\* the slices over S of length at most n: nil, or non-nil with 0..n elements
SlicesUpTo(S, n) == {NilSlice} \cup { MkSlice(q) : q \in SeqsUpTo(S, n) }

\* the column [name, not primary], [id, primary] pair of the README's tables
NameThenId ==
    MkSlice(<< Column(<<110, 97, 109, 101>>, <<>>, <<116, 101, 120, 116>>, FALSE),
               Column(<<105, 100>>, <<>>, <<105, 110, 116>>, TRUE) >>)

\* Tables slices: up to MaxTables Tables with no Columns or the pair above,
\* or one Table with up to MaxCols Columns
TableSlices ==
    SlicesUpTo({ Table(n, c) : n \in TableNames,
                               c \in {NilSlice, MkSlice(<<>>), NameThenId} },
               MaxTables)
    \cup { MkSlice(<<Table(<<97>>, c)>>) : c \in SlicesUpTo(Columns, MaxCols) }

\* References slices of up to MaxRefs References
ReferenceSlices == SlicesUpTo(References, MaxRefs)

\* a few Tables slices to go with every References slice
FewTableSlices ==
    { NilSlice, MkSlice(<<>>),
      MkSlice(<< Table(<<97>>, NameThenId), Table(<<90>>, MkSlice(<<>>)) >>) }

\* a few References slices to go with every Tables slice: none, or the two
\* mutually reversed References of TestSchema_Sort
FewReferenceSlices ==
    { NilSlice, MkSlice(<<>>),
      MkSlice(<< Reference(TableColumn(<<97>>, <<110, 97, 109, 101>>),
                           TableColumn(<<90>>, <<105, 100>>)),
                 Reference(TableColumn(<<90>>, <<105, 100>>),
                           TableColumn(<<97>>, <<110, 97, 109, 101>>)) >>) }

\* the Schemas a caller builds and sorts
InputSchemas ==
    { Schema(t, r) : t \in TableSlices, r \in FewReferenceSlices }
    \cup { Schema(t, r) : t \in FewTableSlices, r \in ReferenceSlices }

(***************************************************************************)
(* A caller that builds a Schema and calls Sort on it, as TestSchema_Sort  *)
(* and the extraction tests do.                                            *)
(***************************************************************************)
\* an absent value and a present one
None == <<>>

Some(x) == <<x>>

(***************************************************************************)
(* The mysql and mongodb sources, and the four sources as one.             *)
(***************************************************************************)
\* ExtractSchema that wraps a failed table listing as "extracting references"
\* and a failed reference query as "extracting tables"
MysqlExtractSchemaSwapped(catalog, order, tablesFault, referencesFault) ==
    LET tables == extractTables("mysql", catalog.tables, order, tablesFault)
        references == extractReferences(catalog.references, referencesFault)
    IN  IF tables.err # <<>>
        THEN [schema |-> Schema(NilSlice, NilSlice),
              err |-> <<"extracting references">> \o tables.err,
              queries |-> <<"tables">>]
        ELSE IF references.err # <<>>
        THEN [schema |-> Schema(NilSlice, NilSlice),
              err |-> <<"extracting tables">> \o references.err,
              queries |-> <<"tables", "references">>]
        ELSE [schema |-> Schema(tables.val, references.val), err |-> <<>>,
              queries |-> <<"tables", "references">>]

\* ExtractSchema(ctx) of the mysql source: as that of cockroach, on the rows
\* of MySQL's information_schema
MysqlExtractSchema(catalog, order, tablesFault, referencesFault) ==
    LET tables == extractTables("mysql", catalog.tables, order, tablesFault)
        references == extractReferences(catalog.references, referencesFault)
    IN  IF tables.err # <<>>
        THEN [schema |-> Schema(NilSlice, NilSlice),
              err |-> <<"extracting tables">> \o tables.err,
              queries |-> <<"tables">>]
        ELSE IF references.err # <<>>
        THEN [schema |-> Schema(NilSlice, NilSlice),
              err |-> <<"extracting references">> \o references.err,
              queries |-> <<"tables", "references">>]
        ELSE [schema |-> Schema(tables.val, references.val), err |-> <<>>,
              queries |-> <<"tables", "references">>]

\* "_id"
FieldId == <<95, 105, 100>>

\* "ObjectId"
ObjectId == <<79, 98, 106, 101, 99, 116, 73, 100>>

\* getMongoDBType(value): value is given by the name %T prints for its Go
\* type ("<nil>" for nil); a type without a case of its own gives that name
getMongoDBType(value) ==
    CASE value = <<115, 116, 114, 105, 110, 103>> -> <<83, 116, 114, 105, 110, 103>>
      [] value \in {<<105, 110, 116>>, <<105, 110, 116, 51, 50>>, <<105, 110, 116, 54, 52>>} -> <<73, 110, 116>>
      [] value \in {<<102, 108, 111, 97, 116, 51, 50>>, <<102, 108, 111, 97, 116, 54, 52>>} -> <<68, 111, 117, 98, 108, 101>>
      [] value = <<98, 111, 111, 108>> -> <<66, 111, 111, 108, 101, 97, 110>>
      [] value \in {<<91, 93, 105, 110, 116, 101, 114, 102, 97, 99, 101, 32, 123, 125>>, <<112, 114, 105, 109, 105, 116, 105, 118, 101, 46, 65>>} -> <<65, 114, 114, 97, 121>>
      [] value \in {<<112, 114, 105, 109, 105, 116, 105, 118, 101, 46, 77>>, <<109, 97, 112, 91, 115, 116, 114, 105, 110, 103, 93, 105, 110, 116, 101, 114, 102, 97, 99, 101, 32, 123, 125>>} -> <<79, 98, 106, 101, 99, 116>>
      [] value = <<60, 110, 105, 108, 62>> -> <<78, 117, 108, 108>>
      [] OTHER -> value

\* strings.HasPrefix(s, prefix)
HasPrefix(s, prefix) ==
    Len(s) >= Len(prefix) /\ SubSeq(s, 1, Len(prefix)) = prefix

\* the databases extractCollections skips
SkipDatabase(name) ==
    HasPrefix(name, <<115, 121, 115, 116, 101, 109>>) \/ name = <<97, 100, 109, 105, 110>> \/ name = <<108, 111, 99, 97, 108>>

\* the collections extractCollections skips
SkipCollection(name) == HasPrefix(name, <<115, 121, 115, 116, 101, 109, 46>>)

\* the collections extractCollections samples, database after database, each
\* with the document FindOne returns: None when the collection is empty
SampledOfDatabase(db) ==
    LET f[i \in 0..Len(db.collections)] ==
            IF i = 0 THEN <<>>
            ELSE IF SkipCollection(db.collections[i].name) THEN f[i - 1]
                 ELSE Append(f[i - 1],
                             [db |-> db.name, coll |-> db.collections[i].name,
                              doc |-> db.collections[i].doc])
    IN  f[Len(db.collections)]

SampledCollections(databases) ==
    LET f[i \in 0..Len(databases)] ==
            IF i = 0 THEN <<>>
            ELSE IF SkipDatabase(databases[i].name) THEN f[i - 1]
                 ELSE f[i - 1] \o SampledOfDatabase(databases[i])
    IN  f[Len(databases)]

\* the fields of the sampled document of a collection
DocFields(c) == IF c.doc = None THEN {} ELSE DOMAIN c.doc[1]

\* the orders in which `for field, value := range doc` may visit the fields
\* of each sampled document
DocOrders(databases) ==
    LET cs == SampledCollections(databases)
    IN  { q \in [DOMAIN cs -> UNION { MapOrders(DocFields(cs[k])) : k \in DOMAIN cs }] :
              \A k \in DOMAIN cs : q[k] \in MapOrders(DocFields(cs[k])) }

\* getCollectionSchema(ctx, coll): nil for an empty collection, else one
\* Column for each field of the sampled document, in the order of the range
getCollectionSchema(c, order) ==
    IF c.doc = None THEN NilSlice
    ELSE MkSlice([i \in DOMAIN order |->
             IF order[i] = FieldId
             THEN Column(FieldId, <<>>, ObjectId, TRUE)
             ELSE Column(order[i], <<>>, getMongoDBType(c.doc[1][order[i]]),
                         FALSE)])

\* the steps of extractCollections that can fail: ListDatabaseNames,
\* ListCollectionNames (when a database is not skipped), FindOne and Decode
\* (when a collection is not skipped)
MongoFaults(databases) ==
    {"none", "listDatabases"}
    \cup (IF \E i \in DOMAIN databases : ~SkipDatabase(databases[i].name)
          THEN {"listCollections"} ELSE {})
    \cup (IF SampledCollections(databases) # <<>> THEN {"sample"} ELSE {})

\* extractCollections(ctx): the Tables and the error
extractCollections(databases, orders, fault) ==
    LET cs == SampledCollections(databases)
    IN  CASE fault = "listDatabases" ->
                [val |-> NilSlice, err |-> <<"listing databases", "driver">>]
          [] fault = "listCollections" ->
                [val |-> NilSlice,
                 err |-> <<"listing collections in database", "driver">>]
          [] fault = "sample" ->
                [val |-> NilSlice,
                 err |-> <<"getting schema for collection",
                           "sampling document", "driver">>]
          [] OTHER ->
                [val |-> IF cs = <<>> THEN NilSlice
                         ELSE MkSlice([k \in DOMAIN cs |->
                                  Table(cs[k].db \o <<46>> \o cs[k].coll,
                                        getCollectionSchema(cs[k], orders[k]))]),
                 err |-> <<>>]

\* ExtractSchema(ctx) of the mongodb source: the Tables only
MongoExtractSchema(databases, orders, fault) ==
    LET tables == extractCollections(databases, orders, fault)
    IN  IF tables.err # <<>>
        THEN [schema |-> Schema(NilSlice, NilSlice),
              err |-> <<"extracting collections">> \o tables.err]
        ELSE [schema |-> Schema(tables.val, NilSlice), err |-> <<>>]

\* the SQL backends and all backends
SQLBackends == {"cockroach", "mysql", "clickhouse"}

Backends == SQLBackends \cup {"mongodb"}

\* ExtractSchema(ctx) of the SQL source of the given kind
SQLExtractSchema(kind, catalog, order, tablesFault, referencesFault) ==
    CASE kind = "cockroach" ->
            CockroachExtractSchema(catalog, order, tablesFault, referencesFault)
      [] kind = "mysql" ->
            MysqlExtractSchema(catalog, order, tablesFault, referencesFault)
      [] OTHER -> ClickhouseExtractSchema(catalog, order, tablesFault)

\* NewSource(connStr): the Source owns the connection it opened
NewSource(kind) == [kind |-> kind, closer |-> TRUE]

\* NewSourceFromDB(db), NewSourceFromClient(client): no closer is set
NewSourceFromDB(kind) == [kind |-> kind, closer |-> FALSE]

\* (*sql.DB).Close(): nothing on a DB already closed; else the DB is closed
\* and the error of closing its connections, if any, is returned
DBClose(c, closeFails) ==
    IF ~c.open THEN [conn |-> [c EXCEPT !.closes = c.closes + 1], err |-> <<>>]
    ELSE [conn |-> [open |-> FALSE, closes |-> c.closes + 1],
          err |-> IF closeFails THEN <<"driver">> ELSE <<>>]

\* mongoCloser.Close(): client.Disconnect(ctx), which returns
\* ErrClientDisconnected on a client already disconnected
MongoCloserClose(c, closeFails) ==
    IF ~c.open
    THEN [conn |-> [c EXCEPT !.closes = c.closes + 1],
          err |-> <<"client is disconnected">>]
    ELSE [conn |-> [open |-> FALSE, closes |-> c.closes + 1],
          err |-> IF closeFails THEN <<"driver">> ELSE <<>>]

\* Close without the test for a nil closer
SourceCloseAlways(src, c, closeFails) ==
    IF src.kind = "mongodb" THEN MongoCloserClose(c, closeFails)
    ELSE DBClose(c, closeFails)

\* (s *Source) Close()
SourceClose(src, c, closeFails) ==
    IF ~src.closer THEN [conn |-> c, err |-> <<>>]
    ELSE IF src.kind = "mongodb" THEN MongoCloserClose(c, closeFails)
    ELSE DBClose(c, closeFails)

(***************************************************************************)
(* The command line and the catalog cmd/dberd runs against.                *)
(***************************************************************************)
\* the values of --source: the two pickSource knows, one it does not, none
SourceTypes == {"cockroach", "clickhouse"}

SourceFlags == SourceTypes \cup {"", "mysql"}

\* the values of --target: the four pickTarget knows, one it does not, none
TargetFlags == TargetTypes \cup {"", "dot"}

\* the values of --source-dsn: one the driver parses, one it rejects
SourceDSNs == {"postgres://db", "%"}

DSNParses(dsn) == dsn # "%"

\* the flags after flag.Parse()
Flags ==
    [source : SourceFlags, target : TargetFlags,
     formatToFile : {"", "schema.out"}, renderToFile : {"", "schema.svg"},
     sourceDSN : SourceDSNs, help : BOOLEAN]

\* the condition under which main prints the usage
Usage(f) ==
    f.help \/ f.source = "" \/ f.target = ""
    \/ (f.formatToFile = "" /\ f.renderToFile = "")

\* main gets as far as source.ExtractSchema
ReachesExtract(f) ==
    /\ ~Usage(f)
    /\ f.source \in SourceTypes
    /\ DSNParses(f.sourceDSN)
    /\ f.target \in TargetTypes
    /\ (f.renderToFile # "" => Capabilities(f.target).Render)

\* a row of the tables query
TableRow(table, column, dataType, isNullable, columnDefault, columnComment, isPrimary) ==
    [tableSchema |-> <<112>>, tableName |-> table, columnName |-> column,
     dataType |-> dataType, isNullable |-> isNullable,
     columnDefault |-> columnDefault, columnComment |-> columnComment,
     isPrimary |-> isPrimary]

\* the columns of the catalog: p.a(name, id primary), p.b(id primary, name)
RowAName == TableRow(<<97>>, <<110, 97, 109, 101>>, <<116, 101, 120, 116>>, <<89, 69, 83>>, NilString, Ptr(<<99>>), FALSE)

RowAId == TableRow(<<97>>, <<105, 100>>, <<105, 110, 116>>, <<78, 79>>, Ptr(<<49>>), NilString, TRUE)

RowBId == TableRow(<<98>>, <<105, 100>>, <<105, 110, 116>>, <<78, 79>>, Ptr(<<>>), NilString, TRUE)

RowBName == TableRow(<<98>>, <<110, 97, 109, 101>>, <<116, 101, 120, 116>>, <<78, 79>>, NilString, NilString, FALSE)

TableRows == {RowAName, RowAId, RowBId, RowBName}

\* a row of the references query
ReferenceRow(sourceTable, sourceColumn, targetTable, targetColumn) ==
    [sourceSchema |-> <<112>>, sourceTable |-> sourceTable,
     sourceColumn |-> sourceColumn,
     targetSchema |-> <<112>>, targetTable |-> targetTable,
     targetColumn |-> targetColumn]

\* the foreign keys of the catalog, in the order of the query
ReferenceRowLists ==
    { <<>>,
      <<ReferenceRow(<<97>>, <<110, 97, 109, 101>>, <<98>>, <<105, 100>>)>>,
      <<ReferenceRow(<<98>>, <<110, 97, 109, 101>>, <<97>>, <<105, 100>>)>>,
      <<ReferenceRow(<<97>>, <<110, 97, 109, 101>>, <<98>>, <<105, 100>>),
        ReferenceRow(<<98>>, <<110, 97, 109, 101>>, <<97>>, <<105, 100>>)>> }

\* ORDER BY of the tables query: cockroach and mysql order by schema, table
\* and ordinal position, clickhouse by database, column name and position
RowsInQueryOrder(kind, rows) ==
    \A i, j \in DOMAIN rows :
        i < j =>
            /\ rows[i] # rows[j]
            /\ IF kind # "clickhouse"
               THEN ~StrLess(TableKey(rows[j]), TableKey(rows[i]))
               ELSE ~StrLess(rows[j].columnName, rows[i].columnName)

\* each foreign key joins columns the catalog has
ReferencesResolve(rows, refs) ==
    \A i \in DOMAIN refs :
        /\ \E k \in DOMAIN rows :
              /\ rows[k].tableName = refs[i].sourceTable
              /\ rows[k].columnName = refs[i].sourceColumn
        /\ \E k \in DOMAIN rows :
              /\ rows[k].tableName = refs[i].targetTable
              /\ rows[k].columnName = refs[i].targetColumn

\* what the two queries return for the source of the given kind
Catalogs(kind) ==
    {c \in [tables : SeqsUpTo(TableRows, MaxRows),
            references : ReferenceRowLists] :
        /\ RowsInQueryOrder(kind, c.tables)
        /\ ReferencesResolve(c.tables, c.references)}

EmptyCatalog == [tables |-> <<>>, references |-> <<>>]

\* the runs of cmd/dberd over one catalog
Runs == {1, 2}

VARIABLES
    input,      \* the Schema as the caller built it
    schema,     \* the caller's Schema value, sorted in place by Sort
    sortCalls,  \* how often Sort has been called on schema
    flags,      \* the command line of cmd/dberd
    catalog,    \* the rows the source's queries return
    run,        \* which run of the command this is
    pc,         \* where main is
    source,     \* the Source pickSource returned
    target,     \* the Target pickTarget returned
    fs,         \* the FormattedSchema FormatSchema returned
    diagram,    \* the bytes RenderSchema returned
    files,      \* the two output files
    artifacts,  \* the files each run has written in full
    exitCode,   \* the exit status of each run
    stderr,     \* the messages printed to os.Stderr
    closeCalls, \* how often source.Close() has run
    calls,      \* the methods main has called, in order
    conn        \* the connection or client under a Source used as a library

sortVars == <<input, schema, sortCalls>>

mainVars ==
    <<flags, catalog, run, pc, source, target, fs, diagram, files, artifacts,
      exitCode, stderr, closeCalls, calls>>

libVars == <<conn, results>>

\* no Source or Target is used as a library
LibIdle ==
    /\ conn = [open |-> TRUE, closes |-> 0]
    /\ results = <<>>

vars == <<sortVars, mainVars, libVars>>

\* the test of Sort does not run main
InitSort ==
    /\ input \in InputSchemas
    /\ schema = input
    /\ sortCalls = 0
    /\ flags = [source |-> "", target |-> "", formatToFile |-> "",
                renderToFile |-> "", sourceDSN |-> "", help |-> FALSE]
    /\ catalog = EmptyCatalog
    /\ run = 1
    /\ pc = "test"
    /\ source = None
    /\ target = None
    /\ fs = None
    /\ diagram = None
    /\ files = [format |-> None, render |-> None]
    /\ artifacts = [r \in Runs |-> [format |-> None, render |-> None]]
    /\ exitCode = [r \in Runs |-> None]
    /\ stderr = <<>>
    /\ closeCalls = 0
    /\ calls = <<>>
    /\ LibIdle

\* tt.schema.Sort()
CallSort ==
    /\ pc = "test"
    /\ sortCalls < MaxSortCalls
    /\ schema' = Sort(schema)
    /\ sortCalls' = sortCalls + 1
    /\ UNCHANGED <<input, mainVars>>
    /\ UNCHANGED libVars

NextSort == CallSort

SpecSort == InitSort /\ [][NextSort]_vars

(***************************************************************************)
(* cmd/dberd: main, run twice over one command line and one catalog.       *)
(* os.Exit(1) ends the process at once; the deferred source.Close() runs   *)
(* only when main returns.                                                 *)
(***************************************************************************)
\* an exit that lets main run on after a failed ExtractSchema
Exit1RunsOn(message) ==
    /\ stderr' = Append(stderr, message)
    /\ exitCode' = [exitCode EXCEPT ![run] = Some(1)]
    /\ pc' = IF pc = "extract" THEN "format" ELSE "exited"

\* fmt.Fprintf(os.Stderr, ...); os.Exit(1)
Exit1(message) ==
    /\ stderr' = Append(stderr, message)
    /\ exitCode' = [exitCode EXCEPT ![run] = Some(1)]
    /\ pc' = "exited"

\* flag.Parse() and the usage check
ParseFlags ==
    /\ pc = "main"
    /\ IF Usage(flags)
       THEN Exit1(<<"Usage: dberd [options]">>)
       ELSE /\ pc' = "pickSource"
            /\ UNCHANGED <<stderr, exitCode>>
    /\ UNCHANGED <<sortVars, flags, catalog, run, source, target, fs, diagram,
                   files, artifacts, closeCalls, calls>>
    /\ UNCHANGED libVars

\* pickSource(*sourceType, *sourceDSN), then defer source.Close()
PickSource ==
    /\ pc = "pickSource"
    /\ IF flags.source \notin SourceTypes
       THEN Exit1(<<"Error", "unknown source">>) /\ UNCHANGED source
       ELSE IF ~DSNParses(flags.sourceDSN)
       THEN /\ Exit1(<<"Error",
                       IF flags.source = "cockroach"
                       THEN "parsing cockroach connection string"
                       ELSE "opening sql connection", "driver">>)
            /\ UNCHANGED source
       ELSE /\ source' = Some([kind |-> flags.source, closed |-> FALSE])
            /\ pc' = "pickTarget"
            /\ UNCHANGED <<stderr, exitCode>>
    /\ UNCHANGED <<sortVars, flags, catalog, run, target, fs, diagram, files,
                   artifacts, closeCalls, calls>>
    /\ UNCHANGED libVars

\* pickTarget(*targetType); NewTarget returns an error when the embedded
\* template does not parse or, in d2, when the ruler cannot be created
PickTarget ==
    /\ pc = "pickTarget"
    /\ \E fault \in NewTargetFaults(flags.target) :
          IF flags.target \notin TargetTypes
          THEN Exit1(<<"Error", "unknown target">>) /\ UNCHANGED target
          ELSE IF fault = "parse"
          THEN Exit1(<<"Error", "parsing template", "template">>)
               /\ UNCHANGED target
          ELSE IF fault = "ruler"
          THEN Exit1(<<"Error", "creating ruler", "textmeasure">>)
               /\ UNCHANGED target
          ELSE /\ target' = Some(flags.target)
               /\ pc' = "capabilities"
               /\ UNCHANGED <<stderr, exitCode>>
    /\ UNCHANGED <<sortVars, flags, catalog, run, source, fs, diagram, files,
                   artifacts, closeCalls, calls>>
    /\ UNCHANGED libVars
\* a check of the Format capability only
CheckCapabilitiesFormatOnly ==
    /\ pc = "capabilities"
    /\ IF ~Capabilities(target[1]).Format
       THEN Exit1(<<"Error", "Target doesn't support formatting">>)
       ELSE /\ pc' = "extract"
            /\ UNCHANGED <<stderr, exitCode>>
    /\ calls' = Append(calls, "Capabilities")
    /\ UNCHANGED <<sortVars, flags, catalog, run, source, target, fs, diagram,
                   files, artifacts, closeCalls>>
    /\ UNCHANGED libVars

\* targetCaps := target.Capabilities() and the two checks on it
CheckCapabilities ==
    /\ pc = "capabilities"
    /\ LET targetCaps == Capabilities(target[1])
       IN  IF ~targetCaps.Format
           THEN Exit1(<<"Error", "Target doesn't support formatting">>)
           ELSE IF flags.renderToFile # "" /\ ~targetCaps.Render
           THEN Exit1(<<"Error", "Target doesn't support render">>)
           ELSE /\ pc' = "extract"
                /\ UNCHANGED <<stderr, exitCode>>
    /\ calls' = Append(calls, "Capabilities")
    /\ UNCHANGED <<sortVars, flags, catalog, run, source, target, fs, diagram,
                   files, artifacts, closeCalls>>
    /\ UNCHANGED libVars

\* schema, err := source.ExtractSchema(ctx)
CallExtractSchema ==
    /\ pc = "extract"
    /\ \E order \in MapOrders(DOMAIN TableMap(source[1].kind, catalog.tables)),
          tablesFault \in QueryFaults(catalog.tables),
          referencesFault \in QueryFaults(catalog.references) :
          LET r == ExtractSchema(source[1].kind, catalog, order, tablesFault,
                                 referencesFault)
          IN  /\ schema' = r.schema
              /\ IF r.err # <<>>
                 THEN Exit1(<<"Error", "Extracting schema">> \o r.err)
                 ELSE /\ pc' = "format"
                      /\ UNCHANGED <<stderr, exitCode>>
    /\ calls' = Append(calls, "ExtractSchema")
    /\ UNCHANGED <<input, sortCalls, flags, catalog, run, source, target, fs,
                   diagram, files, artifacts, closeCalls>>
    /\ UNCHANGED libVars
\* a main that renders before it writes the formatted artifact
CallFormatSchemaRenderFirst ==
    /\ pc = "format"
    /\ \E executeFails \in ExecuteOutcomes(target[1], schema) :
          LET r == FormatSchema(target[1], schema, executeFails)
          IN  /\ results' = Append(results,
                     [op |-> "FormatSchema", schema |-> schema,
                      given |-> r.fs, fs |-> r.fs, out |-> <<>>,
                      err |-> r.err, compiled |-> FALSE, cancelled |-> FALSE,
                      executeFails |-> executeFails])
              /\ IF r.err # <<>>
                 THEN Exit1(<<"Error", "Formatting schema">> \o r.err)
                      /\ UNCHANGED fs
                 ELSE /\ fs' = Some(r.fs)
                      /\ pc' = IF flags.renderToFile # "" THEN "render"
                               ELSE IF flags.formatToFile # "" THEN "writeFormat"
                               ELSE "return"
                      /\ UNCHANGED <<stderr, exitCode>>
    /\ calls' = Append(calls, "FormatSchema")
    /\ UNCHANGED <<sortVars, flags, catalog, run, source, target, diagram,
                   files, artifacts, closeCalls>>
    /\ UNCHANGED conn

\* fs, err := target.FormatSchema(ctx, schema); the call is recorded, so that
\* the template fails on the same Schema in a later run as it did in this one
CallFormatSchema ==
    /\ pc = "format"
    /\ \E executeFails \in ExecuteOutcomes(target[1], schema) :
          LET r == FormatSchema(target[1], schema, executeFails)
          IN  /\ results' = Append(results,
                     [op |-> "FormatSchema", schema |-> schema,
                      given |-> r.fs, fs |-> r.fs, out |-> <<>>,
                      err |-> r.err, compiled |-> FALSE, cancelled |-> FALSE,
                      executeFails |-> executeFails])
              /\ IF r.err # <<>>
                 THEN Exit1(<<"Error", "Formatting schema">> \o r.err)
                      /\ UNCHANGED fs
                 ELSE /\ fs' = Some(r.fs)
                      /\ pc' = IF flags.formatToFile # "" THEN "writeFormat"
                               ELSE IF flags.renderToFile # "" THEN "render"
                               ELSE "return"
                      /\ UNCHANGED <<stderr, exitCode>>
    /\ calls' = Append(calls, "FormatSchema")
    /\ UNCHANGED <<sortVars, flags, catalog, run, source, target, diagram,
                   files, artifacts, closeCalls>>
    /\ UNCHANGED conn

\* how much of the data a failed write may leave in the file: any prefix;
\* the lengths tried are those within MaxWritten of either end and the half
WrittenLengths(data) ==
    {k \in 0..Len(data) : \/ k <= MaxWritten
                          \/ k >= Len(data) - MaxWritten
                          \/ k = Len(data) \div 2}

\* what os.WriteFile(name, data, 0600) may do: write the data; fail to open
\* the file, which stays as it was; or open and truncate the file and then
\* fail after `written` elements of the data have reached it (all of them
\* when only the closing fails)
WriteOutcomes(data) ==
    {[kind |-> "ok", written |-> Len(data)], [kind |-> "open", written |-> 0]}
    \cup {[kind |-> "write", written |-> k] : k \in WrittenLengths(data)}

\* os.WriteFile(name, data, 0600) and main's check of its error
WriteFile(role, data, outcome) ==
    CASE outcome.kind = "ok" ->
            /\ files' = [files EXCEPT ![role] = Some(data)]
            /\ artifacts' = [artifacts EXCEPT ![run][role] = Some(data)]
            /\ UNCHANGED <<stderr, exitCode>>
      [] outcome.kind = "open" ->
            /\ Exit1(<<"Error", "Writing to file", "open">>)
            /\ UNCHANGED <<files, artifacts>>
      [] OTHER ->
            /\ Exit1(<<"Error", "Writing to file", "write">>)
            /\ files' = [files EXCEPT
                             ![role] = Some(SubSeq(data, 1, outcome.written))]
            /\ UNCHANGED artifacts

\* os.WriteFile(*formatToFile, fs.Data, 0600)
WriteFormatFile ==
    /\ pc = "writeFormat"
    /\ \E outcome \in WriteOutcomes(fs[1].Data) :
          /\ WriteFile("format", fs[1].Data, outcome)
          /\ outcome.kind = "ok" =>
                pc' = IF flags.renderToFile # "" THEN "render" ELSE "return"
    /\ UNCHANGED <<sortVars, flags, catalog, run, source, target, fs, diagram,
                   closeCalls, calls>>
    /\ UNCHANGED libVars

\* diagram, err := target.RenderSchema(ctx, fs)
CallRenderSchema ==
    /\ pc = "render"
    /\ \E fault \in RenderFaults :
          LET r == RenderSchema(target[1], fs[1], fault)
          IN  IF r.err # <<>>
              THEN Exit1(<<"Error", "Rendering schema">> \o r.err)
                   /\ UNCHANGED diagram
              ELSE /\ diagram' = Some(r.out)
                   /\ pc' = "writeRender"
                   /\ UNCHANGED <<stderr, exitCode>>
    /\ calls' = Append(calls, "RenderSchema")
    /\ UNCHANGED <<sortVars, flags, catalog, run, source, target, fs, files,
                   artifacts, closeCalls>>
    /\ UNCHANGED libVars

\* os.WriteFile(*renderToFile, diagram, 0600)
WriteRenderFile ==
    /\ pc = "writeRender"
    /\ \E outcome \in WriteOutcomes(diagram[1]) :
          /\ WriteFile("render", diagram[1], outcome)
          /\ outcome.kind = "ok" => pc' = "return"
    /\ UNCHANGED <<sortVars, flags, catalog, run, source, target, fs, diagram,
                   closeCalls, calls>>
    /\ UNCHANGED libVars

\* main returns: the deferred source.Close() runs, the process exits with 0
Return ==
    /\ pc = "return"
    /\ source' = Some([source[1] EXCEPT !.closed = TRUE])
    /\ closeCalls' = closeCalls + 1
    /\ calls' = Append(calls, "Close")
    /\ exitCode' = [exitCode EXCEPT ![run] = Some(0)]
    /\ pc' = "exited"
    /\ UNCHANGED <<sortVars, flags, catalog, run, target, fs, diagram, files,
                   artifacts, stderr>>
    /\ UNCHANGED libVars

\* the command is run again, with the same flags over the same catalog
RunAgain ==
    /\ pc = "exited"
    /\ run + 1 \in Runs
    /\ run' = run + 1
    /\ pc' = "main"
    /\ schema' = Schema(NilSlice, NilSlice)
    /\ source' = None
    /\ target' = None
    /\ fs' = None
    /\ diagram' = None
    /\ stderr' = <<>>
    /\ closeCalls' = 0
    /\ calls' = <<>>
    /\ UNCHANGED <<input, sortCalls, flags, catalog, files, artifacts,
                   exitCode>>
    /\ UNCHANGED libVars

Init ==
    /\ flags \in Flags
    /\ catalog \in IF ReachesExtract(flags) THEN Catalogs(flags.source)
                   ELSE {EmptyCatalog}
    /\ run = 1
    /\ pc = "main"
    /\ input = Schema(NilSlice, NilSlice)
    /\ schema = Schema(NilSlice, NilSlice)
    /\ sortCalls = 0
    /\ source = None
    /\ target = None
    /\ fs = None
    /\ diagram = None
    /\ files = [format |-> None, render |-> None]
    /\ artifacts = [r \in Runs |-> [format |-> None, render |-> None]]
    /\ exitCode = [r \in Runs |-> None]
    /\ stderr = <<>>
    /\ closeCalls = 0
    /\ calls = <<>>
    /\ LibIdle

Next ==
    \/ ParseFlags
    \/ PickSource
    \/ PickTarget
    \/ CheckCapabilities
    \/ CallExtractSchema
    \/ CallFormatSchema
    \/ WriteFormatFile
    \/ CallRenderSchema
    \/ WriteRenderFile
    \/ Return
    \/ RunAgain

Spec == Init /\ [][Next]_vars

(***************************************************************************)
(* A Target used as a library: NewTarget, then FormatSchema and            *)
(* RenderSchema in any order on the one Target value.                      *)
(***************************************************************************)
\* the Schemas without Tables and References: the zero value Schema{}, and
\* those with empty slices that are not nil
EmptySchemas ==
    { Schema(t, r) : t \in {NilSlice, MkSlice(<<>>)},
                     r \in {NilSlice, MkSlice(<<>>)} }

\* the rows of tables p.a(name, id) and p.b(id)
SampleRows == <<RowAName, RowAId, RowBId>>

\* the Schemas the cockroach source extracts from SampleRows and one foreign
\* key, the Tables in either order
SampleSchemas ==
    { Schema(tableRowsToSchemaTables("cockroach", SampleRows, order),
             referenceRowsToSchemaReferences(
                 << ReferenceRow(<<97>>, <<110, 97, 109, 101>>,
                                 <<98>>, <<105, 100>>) >>)) :
          order \in MapOrders(DOMAIN TableMap("cockroach", SampleRows)) }

\* Schemas whose References do not form a tree over the Tables: a.id
\* referring to itself; a.id and b.id referring to each other; a Reference
\* from x.id to y.id in a Schema without Tables
GraphSchemas ==
    LET id == Column(<<105, 100>>, <<>>, <<105, 110, 116>>, TRUE)
        tables == MkSlice(<< Table(<<97>>, MkSlice(<<id>>)),
                             Table(<<98>>, MkSlice(<<id>>)) >>)
        end(t) == TableColumn(t, <<105, 100>>)
    IN  { Schema(tables, MkSlice(<< Reference(end(<<97>>), end(<<97>>)) >>)),
          Schema(tables, MkSlice(<< Reference(end(<<97>>), end(<<98>>)),
                                    Reference(end(<<98>>), end(<<97>>)) >>)),
          Schema(NilSlice, MkSlice(<< Reference(end(<<120>>), end(<<121>>)) >>)) }

\* the Schemas handed to FormatSchema
TargetSchemas == EmptySchemas \cup SampleSchemas \cup GraphSchemas

\* the FormattedSchemas handed to RenderSchema: what each target formats from
\* Schema{}, and artifacts of a caller's making
GivenArtifacts ==
    { FormatSchema(t, Schema(NilSlice, NilSlice), FALSE).fs : t \in TargetTypes }
    \cup { [Type |-> t, Data |-> <<>>] : t \in {"d2", "json", ""} }

\* the test holds one Target
InitTarget ==
    /\ pc = "target"
    /\ target \in { Some(t) : t \in TargetTypes }
    /\ input = Schema(NilSlice, NilSlice)
    /\ schema = Schema(NilSlice, NilSlice)
    /\ sortCalls = 0
    /\ flags = [source |-> "", target |-> "", formatToFile |-> "",
                renderToFile |-> "", sourceDSN |-> "", help |-> FALSE]
    /\ catalog = EmptyCatalog
    /\ run = 1
    /\ source = None
    /\ fs = None
    /\ diagram = None
    /\ files = [format |-> None, render |-> None]
    /\ artifacts = [r \in Runs |-> [format |-> None, render |-> None]]
    /\ exitCode = [r \in Runs |-> None]
    /\ stderr = <<>>
    /\ closeCalls = 0
    /\ calls = <<>>
    /\ LibIdle

\* fs, err := target.FormatSchema(ctx, s); cancelled says whether ctx is
\* already done when the call is made (every FormatSchema takes the context
\* as `_ context.Context` and never reads it)
TargetFormatSchema ==
    /\ pc = "target"
    /\ Len(results) < MaxCalls
    /\ \E s \in TargetSchemas, cancelled \in BOOLEAN :
        \E executeFails \in ExecuteOutcomes(target[1], s) :
          LET r == FormatSchema(target[1], s, executeFails)
          IN  results' = Append(results,
                  [op |-> "FormatSchema", schema |-> s, given |-> r.fs,
                   fs |-> r.fs, out |-> <<>>, err |-> r.err,
                   compiled |-> FALSE, cancelled |-> cancelled,
                   executeFails |-> executeFails])
    /\ UNCHANGED <<sortVars, mainVars, conn>>

\* out, err := target.RenderSchema(ctx, given), with a context that is live
TargetRenderSchema ==
    /\ pc = "target"
    /\ Len(results) < MaxCalls
    /\ \E given \in GivenArtifacts
                    \cup { results[i].fs : i \in DOMAIN results },
          fault \in RenderFaults :
          LET r == RenderSchema(target[1], given, fault)
          IN  results' = Append(results,
                  [op |-> "RenderSchema", schema |-> Schema(NilSlice, NilSlice),
                   given |-> given, fs |-> given, out |-> r.out,
                   err |-> r.err, compiled |-> r.compiled,
                   cancelled |-> FALSE, executeFails |-> FALSE])
    /\ UNCHANGED <<sortVars, mainVars, conn>>

NextTarget == TargetFormatSchema \/ TargetRenderSchema

SpecTarget == InitTarget /\ [][NextTarget]_vars

(***************************************************************************)
(* A Source used as a library: NewSource or NewSourceFromDB, then          *)
(* ExtractSchema and Close in any order on the one Source value.           *)
(***************************************************************************)
\* what a MongoDB server lists: nothing; only the admin database; a
\* database without collections; a database with a collection of documents
\* (fields _id, name of type string, ts of type primitive.Timestamp), a
\* system collection and an empty collection
MongoCatalogs ==
    { [databases |-> <<>>],
      [databases |-> << [name |-> <<97, 100, 109, 105, 110>>,
                         collections |-> << [name |-> <<117, 115, 101, 114, 115>>, doc |-> None] >>] >>],
      [databases |-> << [name |-> <<97, 112, 112>>, collections |-> <<>>] >>],
      [databases |->
          << [name |-> <<97, 112, 112>>,
              collections |->
                  << [name |-> <<117, 115, 101, 114, 115>>,
                      doc |-> Some((FieldId :> <<112, 114, 105, 109, 105, 116, 105, 118, 101, 46, 79, 98, 106, 101, 99, 116, 73, 68>>)
                                   @@ (<<110, 97, 109, 101>> :> <<115, 116, 114, 105, 110, 103>>)
                                   @@ (<<116, 115>> :> <<112, 114, 105, 109, 105, 116, 105, 118, 101, 46, 84, 105, 109, 101, 115, 116, 97, 109, 112>>))],
                     [name |-> <<115, 121, 115, 116, 101, 109, 46, 118, 105, 101, 119, 115>>, doc |-> None],
                     [name |-> <<108, 111, 103, 115>>, doc |-> None] >>] >>] }

\* what the server behind a Source of the given kind holds
SourceCatalogs(kind) ==
    IF kind = "mongodb" THEN MongoCatalogs ELSE Catalogs(kind)

\* the catalog has no foreign key
NoForeignKeys(kind, c) == kind = "mongodb" \/ c.references = <<>>

\* the test holds one Source, over a connection that is open
InitSource ==
    /\ pc = "source"
    /\ source \in { Some(NewSource(kind)) : kind \in Backends }
                  \cup { Some(NewSourceFromDB(kind)) : kind \in Backends }
    /\ catalog \in SourceCatalogs(source[1].kind)
    /\ conn = [open |-> TRUE, closes |-> 0]
    /\ results = <<>>
    /\ input = Schema(NilSlice, NilSlice)
    /\ schema = Schema(NilSlice, NilSlice)
    /\ sortCalls = 0
    /\ flags = [source |-> "", target |-> "", formatToFile |-> "",
                renderToFile |-> "", sourceDSN |-> "", help |-> FALSE]
    /\ run = 1
    /\ target = None
    /\ fs = None
    /\ diagram = None
    /\ files = [format |-> None, render |-> None]
    /\ artifacts = [r \in Runs |-> [format |-> None, render |-> None]]
    /\ exitCode = [r \in Runs |-> None]
    /\ stderr = <<>>
    /\ closeCalls = 0
    /\ calls = <<>>

\* schema, err := source.ExtractSchema(ctx) on a SQL source; on a closed DB
\* the first query fails; the call is recorded with the queries it sent and
\* the step of each that failed
SourceExtractSchema ==
    /\ pc = "source"
    /\ source[1].kind \in SQLBackends
    /\ Len(results) < MaxCalls
    /\ \E order \in MapOrders(DOMAIN TableMap(source[1].kind, catalog.tables)),
          tablesFault \in IF conn.open THEN QueryFaults(catalog.tables)
                          ELSE {"query"},
          referencesFault \in IF source[1].kind = "clickhouse" THEN {"none"}
                              ELSE QueryFaults(catalog.references) :
          LET r == SQLExtractSchema(source[1].kind, catalog, order,
                                    tablesFault, referencesFault)
          IN  results' = Append(results,
                  [op |-> "ExtractSchema", schema |-> r.schema, err |-> r.err,
                   failed |-> tablesFault # "none" \/ referencesFault # "none",
                   open |-> conn.open, queries |-> r.queries,
                   tablesFault |-> tablesFault,
                   referencesFault |-> IF Len(r.queries) = 2
                                       THEN referencesFault ELSE "none"])
    /\ UNCHANGED <<sortVars, mainVars, conn>>

\* schema, err := source.ExtractSchema(ctx) on the mongodb source; on a
\* disconnected client ListDatabaseNames fails
SourceExtractCollections ==
    /\ pc = "source"
    /\ source[1].kind = "mongodb"
    /\ Len(results) < MaxCalls
    /\ \E orders \in DocOrders(catalog.databases),
          fault \in IF conn.open THEN MongoFaults(catalog.databases)
                    ELSE {"listDatabases"} :
          LET r == MongoExtractSchema(catalog.databases, orders, fault)
          IN  results' = Append(results,
                  [op |-> "ExtractSchema", schema |-> r.schema, err |-> r.err,
                   failed |-> fault # "none", open |-> conn.open,
                   queries |-> <<>>, tablesFault |-> fault,
                   referencesFault |-> "none"])
    /\ UNCHANGED <<sortVars, mainVars, conn>>

\* err := source.Close()
SourceCallClose ==
    /\ pc = "source"
    /\ Len(results) < MaxCalls
    /\ \E closeFails \in BOOLEAN :
          LET r == SourceClose(source[1], conn, closeFails)
          IN  /\ conn' = r.conn
              /\ results' = Append(results,
                     [op |-> "Close", schema |-> Schema(NilSlice, NilSlice),
                      err |-> r.err, failed |-> FALSE, open |-> conn.open,
                      queries |-> <<>>, tablesFault |-> "none",
                      referencesFault |-> "none"])
    /\ UNCHANGED <<sortVars, mainVars>>

NextSource ==
    \/ SourceExtractSchema
    \/ SourceExtractCollections
    \/ SourceCallClose

SpecSource == InitSource /\ [][NextSource]_vars

(***************************************************************************)
(* tableRowsToSchemaTables as a function of the rows alone: the rows of a  *)
(* query in any order, with namespaces and table names that hold a ".".    *)
(***************************************************************************)
\* a row of namespace, table and column, as the tables query scans it
NamedRow(namespace, table, column) ==
    [TableRow(table, column, <<105, 110, 116>>, <<78, 79>>, NilString, NilString, FALSE) EXCEPT !.tableSchema = namespace]

\* the rows "a.b"."c".id, "a"."b.c".id, "a"."b.c".name, "a"."c".id and a row
\* whose namespace and table are empty
NamedRows ==
    { NamedRow(<<97, 46, 98>>, <<99>>, <<105, 100>>),
      NamedRow(<<97>>, <<98, 46, 99>>, <<105, 100>>),
      NamedRow(<<97>>, <<98, 46, 99>>, <<110, 97, 109, 101>>),
      NamedRow(<<97>>, <<99>>, <<105, 100>>),
      NamedRow(<<>>, <<>>, <<105, 100>>) }

\* the row sequences handed to tableRowsToSchemaTables
RowSeqs == SeqsUpTo(NamedRows, MaxRowSeq)

\* the test holds the rows and the package whose function it calls
InitRows ==
    /\ pc = "rows"
    /\ source \in { Some(NewSourceFromDB(kind)) : kind \in SQLBackends }
    /\ catalog \in { [tables |-> q, references |-> <<>>] : q \in RowSeqs }
    /\ conn = [open |-> TRUE, closes |-> 0]
    /\ results = <<>>
    /\ input = Schema(NilSlice, NilSlice)
    /\ schema = Schema(NilSlice, NilSlice)
    /\ sortCalls = 0
    /\ flags = [source |-> "", target |-> "", formatToFile |-> "",
                renderToFile |-> "", sourceDSN |-> "", help |-> FALSE]
    /\ run = 1
    /\ target = None
    /\ fs = None
    /\ diagram = None
    /\ files = [format |-> None, render |-> None]
    /\ artifacts = [r \in Runs |-> [format |-> None, render |-> None]]
    /\ exitCode = [r \in Runs |-> None]
    /\ stderr = <<>>
    /\ closeCalls = 0
    /\ calls = <<>>

\* tables := tableRowsToSchemaTables(tableRows)
CallTableRowsToSchemaTables ==
    /\ pc = "rows"
    /\ results = <<>>
    /\ \E order \in MapOrders(DOMAIN TableMap(source[1].kind, catalog.tables)) :
          results' = << [op |-> "tableRowsToSchemaTables",
                         rows |-> catalog.tables,
                         tables |-> tableRowsToSchemaTables(
                                        source[1].kind, catalog.tables, order)] >>
    /\ UNCHANGED <<sortVars, mainVars, conn>>

NextRows == CallTableRowsToSchemaTables

SpecRows == InitRows /\ [][NextRows]_vars

(***************************************************************************)
(* Notions the properties of Sort are stated in.  None of them uses the    *)
(* comparators of Sort.                                                    *)
(***************************************************************************)
\* a <= b on Go strings
StrLeq(a, b) == ~StrLess(b, a)

\* how often x occurs in the sequence s
Count(s, x) == Cardinality({i \in DOMAIN s : s[i] = x})

\* s and t hold the same elements, each equally often
SameBag(s, t) ==
    /\ Len(s) = Len(t)
    /\ \A i \in DOMAIN s : Count(s, s[i]) = Count(t, s[i])

\* t and u are the same Table up to the order of their Columns
SameTable(t, u) ==
    /\ t.Name = u.Name
    /\ t.Columns.isNil = u.Columns.isNil
    /\ SameBag(t.Columns.items, u.Columns.items)

\* how many Tables of the sequence s are the Table t up to column order
CountTable(s, t) == Cardinality({i \in DOMAIN s : SameTable(s[i], t)})

\* a and b hold the same Tables, Columns and References, each equally often
SameContent(a, b) ==
    /\ a.Tables.isNil = b.Tables.isNil
    /\ a.References.isNil = b.References.isNil
    /\ Len(a.Tables.items) = Len(b.Tables.items)
    /\ \A i \in DOMAIN a.Tables.items :
          CountTable(a.Tables.items, a.Tables.items[i])
              = CountTable(b.Tables.items, a.Tables.items[i])
    /\ SameBag(a.References.items, b.References.items)

\* the reorderings of the sequence s
PermutedSeqs(s) ==
    { [i \in DOMAIN s |-> s[f[i]]] : f \in Permutations(DOMAIN s) }

\* the Tables t with its Columns reordered
PermutedTables(t) ==
    { Table(t.Name, [isNil |-> t.Columns.isNil, items |-> c]) :
          c \in PermutedSeqs(t.Columns.items) }

\* the Schemas that are a with its Tables, the Columns of each Table and its
\* References reordered
PermutedSchemas(a) ==
    LET ts == a.Tables.items
        inner == { q \in [DOMAIN ts -> UNION { PermutedTables(ts[i]) :
                                                 i \in DOMAIN ts }] :
                       \A i \in DOMAIN ts : q[i] \in PermutedTables(ts[i]) }
    IN  { Schema([isNil |-> a.Tables.isNil, items |-> t],
                 [isNil |-> a.References.isNil, items |-> r]) :
              t \in UNION { PermutedSeqs(q) : q \in inner },
              r \in PermutedSeqs(a.References.items) }

\* no two Tables of a share a name, and no two Columns of one Table share
\* both name and primary flag
NamesDistinct(a) ==
    /\ \A i, j \in DOMAIN a.Tables.items :
          a.Tables.items[i].Name = a.Tables.items[j].Name => i = j
    /\ \A i \in DOMAIN a.Tables.items :
          LET cs == a.Tables.items[i].Columns.items
          IN  \A j, k \in DOMAIN cs :
                  (cs[j].Name = cs[k].Name /\ cs[j].IsPrimary = cs[k].IsPrimary)
                      => j = k

\* the key (source table, source column, target table, target column)
RefKey(r) == << r.Source.Table, r.Source.Column, r.Target.Table, r.Target.Column >>

\* k <= l in the lexicographic order of tuples of strings of the same length
LexLeq(k, l) ==
    \/ k = l
    \/ \E n \in DOMAIN k :
          /\ \A m \in 1..(n - 1) : k[m] = l[m]
          /\ StrLess(k[n], l[n])

\* the Tables of s are in order of name, the Columns of each Table primary
\* first and in order of name among the primary and among the others, and the
\* References in order of their key
IsNormalized(s) ==
    /\ \A i, j \in DOMAIN s.Tables.items :
          i < j => StrLeq(s.Tables.items[i].Name, s.Tables.items[j].Name)
    /\ \A t \in DOMAIN s.Tables.items :
          LET cs == s.Tables.items[t].Columns.items
          IN  \A i, j \in DOMAIN cs :
                  i < j =>
                      /\ ~cs[i].IsPrimary => ~cs[j].IsPrimary
                      /\ cs[i].IsPrimary = cs[j].IsPrimary
                             => StrLeq(cs[i].Name, cs[j].Name)
    /\ \A i, j \in DOMAIN s.References.items :
          i < j => LexLeq(RefKey(s.References.items[i]),
                          RefKey(s.References.items[j]))

(***************************************************************************)
(* Properties of Schema.Sort, checked under SpecSort.                      *)
(***************************************************************************)
\* C1: a call of Sort on a Schema that Sort has already sorted leaves the
\* Schema as it is, whatever the Schema holds (duplicate names included).
C1_SortIdempotent ==
    [][(sortCalls >= 1 /\ sortCalls' = sortCalls + 1) => schema' = schema]_vars

\* C1 witness: Sort was called twice on a Schema with two Tables of one name
\* and different Columns, and the first call reordered something.
C1_Witness ==
    /\ sortCalls = 2
    /\ schema # input
    /\ \E i, j \in DOMAIN input.Tables.items :
          /\ i # j
          /\ input.Tables.items[i].Name = input.Tables.items[j].Name
          /\ input.Tables.items[i] # input.Tables.items[j]

\* C2 as claimed: whatever the Schema, Sort gives on every reordering of the
\* input what it gave on the input.
C2_AnyOrderSameResult ==
    sortCalls >= 1 => \A p \in PermutedSchemas(input) : Sort(p) = schema

\* C2 as amended: when the Table names are distinct and no two Columns of a
\* Table share name and primary flag, Sort gives on every reordering of the
\* input what it gave on the input.
C2_DistinctNamesAnyOrderSameResult ==
    (sortCalls >= 1 /\ NamesDistinct(input))
        => \A p \in PermutedSchemas(input) : Sort(p) = schema

\* C2 witness: a sorted Schema with distinct names, two Tables, two Columns
\* in a Table and two References, which has a reordering other than itself
\* that Sort had to change.
C2_Witness ==
    /\ sortCalls >= 1
    /\ NamesDistinct(input)
    /\ Len(input.Tables.items) >= 2
    /\ Len(input.References.items) >= 2
    /\ \E i \in DOMAIN input.Tables.items :
          Len(input.Tables.items[i].Columns.items) >= 2
    /\ schema # input
    /\ Cardinality(PermutedSchemas(input)) > 1

\* C3: Sort only reorders: the sorted Schema holds the Tables of the input,
\* each with its name and its Columns, and the References of the input, each
\* as often as the input holds it.
C3_SortPreservesContent == sortCalls >= 1 => SameContent(input, schema)

\* C3 witness: a Schema holding one Reference twice was sorted and reordered.
C3_Witness ==
    /\ sortCalls >= 1
    /\ schema # input
    /\ \E i, j \in DOMAIN input.References.items :
          i # j /\ input.References.items[i] = input.References.items[j]

\* C4: in a sorted Schema no primary Column follows a non-primary Column of
\* its Table, and a Table given as [name, id (primary)] holds [id, name].
C4_PrimaryFirst ==
    sortCalls >= 1 =>
        /\ \A t \in DOMAIN schema.Tables.items :
              LET cs == schema.Tables.items[t].Columns.items
              IN  \A i, j \in DOMAIN cs :
                      (i < j /\ ~cs[i].IsPrimary) => ~cs[j].IsPrimary
        /\ \A t \in DOMAIN input.Tables.items :
              input.Tables.items[t].Columns = NameThenId =>
                  \E u \in DOMAIN schema.Tables.items :
                      /\ schema.Tables.items[u].Name = input.Tables.items[t].Name
                      /\ schema.Tables.items[u].Columns
                             = MkSlice(<< NameThenId.items[2], NameThenId.items[1] >>)

\* C4 witness: a Table given as [name, id (primary)] was sorted.
C4_Witness ==
    /\ sortCalls >= 1
    /\ \E t \in DOMAIN input.Tables.items :
          input.Tables.items[t].Columns = NameThenId

\* C5: in a sorted Schema the primary Columns of a Table are in ascending
\* order of name, and so are its non-primary Columns.
C5_ColumnsByNameInPartition ==
    sortCalls >= 1 =>
        \A t \in DOMAIN schema.Tables.items :
            LET cs == schema.Tables.items[t].Columns.items
            IN  \A i, j \in DOMAIN cs :
                    (i < j /\ cs[i].IsPrimary = cs[j].IsPrimary)
                        => StrLeq(cs[i].Name, cs[j].Name)

\* C5 witness: two primary Columns given in descending order of name were
\* sorted.
C5_Witness ==
    /\ sortCalls >= 1
    /\ \E t \in DOMAIN input.Tables.items :
          LET cs == input.Tables.items[t].Columns.items
          IN  /\ Len(cs) >= 2
              /\ cs[1].IsPrimary /\ cs[2].IsPrimary
              /\ StrLess(cs[2].Name, cs[1].Name)

\* C6: in a sorted Schema the Table names never decrease in the byte-wise
\* order of strings, in which "Z" comes before "a".
C6_TablesByName ==
    /\ StrLess(<<90>>, <<97>>)
    /\ sortCalls >= 1 =>
          \A i, j \in DOMAIN schema.Tables.items :
              i < j => StrLeq(schema.Tables.items[i].Name,
                              schema.Tables.items[j].Name)

\* C6 witness: Tables given as ["a", "Z"] were sorted into ["Z", "a"].
C6_Witness ==
    /\ sortCalls >= 1
    /\ Len(input.Tables.items) = 2
    /\ input.Tables.items[1].Name = <<97>>
    /\ input.Tables.items[2].Name = <<90>>
    /\ schema.Tables.items[1].Name = <<90>>
    /\ schema.Tables.items[2].Name = <<97>>

\* C7: in a sorted Schema each Reference is followed by one whose key
\* (source table, source column, target table, target column) is not smaller
\* in the lexicographic order.
C7_ReferencesByKey ==
    sortCalls >= 1 =>
        \A i \in DOMAIN schema.References.items :
            i + 1 \in DOMAIN schema.References.items =>
                LexLeq(RefKey(schema.References.items[i]),
                       RefKey(schema.References.items[i + 1]))

\* C7 witness: two References that agree on the source and differ in the
\* target's table and column were given in descending order and sorted.
C7_Witness ==
    /\ sortCalls >= 1
    /\ Len(input.References.items) >= 2
    /\ LET r == input.References.items
       IN  /\ r[1].Source = r[2].Source
           /\ r[1].Target.Table # r[2].Target.Table
           /\ r[1].Target.Column # r[2].Target.Column
           /\ ~LexLeq(RefKey(r[1]), RefKey(r[2]))
    /\ schema # input

\* C8: Sort leaves a Schema without Tables and References as it is, nil
\* staying nil and empty staying empty, and leaves every Table without
\* Columns as it is.
C8_EmptyStaysAsItIs ==
    sortCalls >= 1 =>
        /\ (input.Tables.items = <<>> /\ input.References.items = <<>>)
               => schema = input
        /\ \A t \in DOMAIN input.Tables.items :
              input.Tables.items[t].Columns.items = <<>> =>
                  Count(schema.Tables.items, input.Tables.items[t])
                      = Count(input.Tables.items, input.Tables.items[t])

\* C8 witness: Sort has returned on a Schema whose Tables are nil and whose
\* References are empty and not nil.
C8_Witness ==
    /\ sortCalls >= 1
    /\ input.Tables = NilSlice
    /\ input.References = MkSlice(<<>>)

(***************************************************************************)
(* Properties of cmd/dberd, checked under Spec.                            *)
(***************************************************************************)
\* C9 as claimed: in every run of main, once FormatSchema has been called,
\* the Schema it was called on has its Tables, Columns and References in
\* normalized order.  main passes the Schema of ExtractSchema on as it is
\* and never calls Sort, so this fails.
C9_FormatSchemaOnNormalizedOnly ==
    (pc # "test" /\ \E i \in DOMAIN calls : calls[i] = "FormatSchema")
        => IsNormalized(schema)

\* C10 as claimed: two runs of main that both end with status 0, with the
\* same flags over the same catalog, have written the same bytes.  The order
\* of the Tables is the order in which the map of tableRowsToSchemaTables
\* was visited, so this fails.
C10_RunsWriteSameBytes ==
    (exitCode[1] = Some(0) /\ exitCode[2] = Some(0))
        => artifacts[1] = artifacts[2]

(***************************************************************************)
(* Properties of the targets, checked under SpecTarget.                    *)
(***************************************************************************)
\* the calls of FormatSchema and of RenderSchema recorded so far
FormatCalls == {i \in DOMAIN results : results[i].op = "FormatSchema"}

RenderCalls == {i \in DOMAIN results : results[i].op = "RenderSchema"}

\* C12: RenderSchema of a target whose Capabilities report no rendering
\* returns the error "unsupported" and no bytes for every artifact, without
\* compiling anything; of the four targets only d2 reports rendering.
C12_NoRenderMeansUnsupported ==
    /\ \A t \in TargetTypes : Capabilities(t).Render <=> t = "d2"
    /\ pc = "target" =>
          \A i \in RenderCalls :
              ~Capabilities(target[1]).Render =>
                  /\ results[i].err = <<"unsupported">>
                  /\ results[i].out = <<>>
                  /\ ~results[i].compiled

\* C12 witness: RenderSchema of the json target was called on the artifact
\* the json target formats.
C12_Witness ==
    /\ pc = "target"
    /\ target = Some("json")
    /\ \E i \in RenderCalls :
          results[i].given = FormatSchema("json", Schema(NilSlice, NilSlice), FALSE).fs

\* C13: RenderSchema of the d2 target returns UnsupportedFormatError, with
\* the given and the expected type, exactly when the artifact's Type is not
\* "d2", and then without having called the compiler; an artifact of the d2
\* target's FormatSchema is not rejected so.
C13_TypeMismatchIsNamed ==
    (pc = "target" /\ target = Some("d2")) =>
        /\ \A i \in RenderCalls :
              /\ (results[i].err # <<>> /\ results[i].err[1] = "UnsupportedFormatError")
                     <=> results[i].given.Type # "d2"
              /\ results[i].given.Type # "d2" =>
                     /\ results[i].err = <<"UnsupportedFormatError",
                                           results[i].given.Type, "d2">>
                     /\ results[i].out = <<>>
                     /\ ~results[i].compiled
        /\ \A i \in RenderCalls, j \in FormatCalls :
              (results[j].err = <<>> /\ results[i].given = results[j].fs)
                  => /\ results[i].compiled
                     /\ (results[i].err = <<>>
                         \/ results[i].err[1] # "UnsupportedFormatError")

\* C13 witness: the d2 target formatted a Schema and was then asked to
\* render the artifact it had returned.
C13_Witness ==
    /\ pc = "target"
    /\ target = Some("d2")
    /\ \E j \in FormatCalls, i \in RenderCalls :
          /\ j < i
          /\ results[j].schema \in SampleSchemas
          /\ results[j].err = <<>>
          /\ results[i].given = results[j].fs

\* the kind of failure of a recorded call, by the path the call took
FailureKind(r) ==
    IF r.op = "FormatSchema" THEN "format"
    ELSE IF ~Capabilities(target[1]).Render THEN "unsupported"
    ELSE IF r.given.Type # target[1] THEN "mismatch"
    ELSE "compile"

\* C14: failures of different kinds are different error values: an error of
\* a template, of a wrong Type or of the compiler is never the "unsupported"
\* error of the targets without rendering, and no two failures of different
\* kinds of one Target are the same value.
C14_FailureKindsDiffer ==
    pc = "target" =>
        /\ \A i \in DOMAIN results :
              (results[i].err # <<>> /\ FailureKind(results[i]) # "unsupported")
                  => \A t \in TargetTypes :
                         ~Capabilities(t).Render =>
                             results[i].err # RenderSchema(t, results[i].given, "none").err
        /\ \A i, j \in DOMAIN results :
              (/\ results[i].err # <<>> /\ results[j].err # <<>>
               /\ FailureKind(results[i]) # FailureKind(results[j]))
                  => results[i].err # results[j].err

\* C14 witness: the d2 target has returned a type mismatch for a json
\* artifact and a compiler failure for a d2 artifact.
C14_Witness ==
    /\ pc = "target"
    /\ target = Some("d2")
    /\ \E i, j \in RenderCalls :
          /\ results[i].given.Type = "json"
          /\ results[i].err # <<>>
          /\ results[j].given.Type = "d2"
          /\ results[j].err = <<"compiling diagram", "d2">>

\* "{\n  \"tables\": [],\n  \"references\": []\n}"
JSONEmptyArrays == <<123, 10, 32, 32, 34, 116, 97, 98, 108, 101, 115, 34, 58, 32, 91, 93, 44, 10, 32, 32, 34, 114, 101, 102, 101, 114, 101, 110, 99, 101, 115, 34, 58, 32, 91, 93, 10, 125>>

\* C17 as claimed: the json target formats every Schema without Tables and
\* References into the object whose "tables" and "references" are empty
\* arrays.  Schema{} has nil slices, which encoding/json writes as null, so
\* this fails.
C17_EmptySchemaGivesEmptyArrays ==
    (pc = "target" /\ target = Some("json")) =>
        \A i \in FormatCalls :
            results[i].schema \in EmptySchemas =>
                /\ results[i].err = <<>>
                /\ results[i].fs.Data = JSONEmptyArrays

(***************************************************************************)
(* Properties of the sources, checked under SpecSource.                    *)
(***************************************************************************)
\* the calls of ExtractSchema and of Close recorded so far
ExtractCalls == {i \in DOMAIN results : results[i].op = "ExtractSchema"}

CloseCalls == {i \in DOMAIN results : results[i].op = "Close"}

\* C15: when a query, scan, iteration or listing step of ExtractSchema has
\* failed, the call returns an error; and whenever it returns an error it
\* returns the Schema without Tables and References, for all four backends.
C15_ExtractAllOrNothing ==
    pc = "source" =>
        \A i \in ExtractCalls :
            /\ results[i].failed => results[i].err # <<>>
            /\ results[i].err # <<>> =>
                  results[i].schema = Schema(NilSlice, NilSlice)

\* C15 witness: the cockroach source had read the rows of its tables when the
\* query for the references failed.
C15_Witness ==
    /\ pc = "source"
    /\ source[1].kind = "cockroach"
    /\ catalog.tables # <<>>
    /\ \E i \in ExtractCalls :
          /\ results[i].failed
          /\ results[i].open
          /\ results[i].err[1] = "extracting references"

\* C16 as claimed: a successful ExtractSchema on a server without foreign
\* keys returns References that are empty and not nil, for all four
\* backends.  The clickhouse and mongodb sources never assign References, so
\* this fails.
C16_ReferencesEmptyNotNil ==
    pc = "source" =>
        \A i \in ExtractCalls :
            (results[i].err = <<>> /\ NoForeignKeys(source[1].kind, catalog))
                => /\ ~results[i].schema.References.isNil
                   /\ results[i].schema.References.items = <<>>

\* C18: Close of a Source made from a connection or client of the caller
\* returns nil and never closes it; once Close of a Source made by NewSource
\* has been called, the connection it opened is closed.
C18_CloseFollowsOwnership ==
    pc = "source" =>
        /\ ~source[1].closer =>
              /\ conn.open
              /\ conn.closes = 0
              /\ \A i \in CloseCalls : results[i].err = <<>>
        /\ (source[1].closer /\ CloseCalls # {}) =>
              /\ ~conn.open
              /\ conn.closes >= 1

\* C18 witness: Close was called on a Source made by NewSourceFromDB after
\* it had extracted a Schema over the caller's connection.
C18_Witness ==
    /\ pc = "source"
    /\ ~source[1].closer
    /\ \E i \in ExtractCalls, j \in CloseCalls :
          i < j /\ results[i].err = <<>>

\* C19 as claimed: every call of Close after the first returns no error,
\* whether the Source owns its connection or not.  The second Close of a
\* mongodb Source made by NewSource disconnects a disconnected client, which
\* is an error, so this fails.
C19_CloseAgainReturnsNil ==
    pc = "source" =>
        \A i, j \in CloseCalls : i < j => results[j].err = <<>>

(***************************************************************************)
(* More properties of cmd/dberd, checked under Spec.                       *)
(***************************************************************************)
\* C20 as claimed: when a run of main that had created its source has ended,
\* Close has been called on the source exactly once.  main ends every
\* failing run with os.Exit(1), which does not run the deferred Close, so
\* this fails.
C20_CloseOnceOnEveryExit ==
    (pc = "exited" /\ source # None) => closeCalls = 1

\* C21 as claimed, for FormatSchema: a call given a context that is already
\* cancelled returns an error that names the cancellation and no artifact.
C21_CancelledContextIsReported ==
    \A i \in FormatCalls :
        results[i].cancelled =>
            /\ \E k \in DOMAIN results[i].err :
                  results[i].err[k] = "context canceled"
            /\ results[i].fs = [Type |-> "", Data |-> <<>>]

\* the stage calls of the current run, in the order they were made
StageTrace ==
    SelectSeq(calls, LAMBDA c : c \in {"ExtractSchema", "FormatSchema",
                                       "RenderSchema"})

\* a is a prefix of b
IsPrefix(a, b) == Len(a) <= Len(b) /\ a = SubSeq(b, 1, Len(a))

\* the current run printed the error of a stage
StageFailed ==
    \E i \in DOMAIN stderr :
        /\ Len(stderr[i]) >= 2
        /\ stderr[i][2] \in {"Extracting schema", "Formatting schema",
                             "Rendering schema"}

\* C22: in one run ExtractSchema, FormatSchema and RenderSchema are each
\* called at most once and in that order; the run in which a stage returned
\* an error has exited with status 1, and makes no further stage call and
\* writes no file.
C22_FailFastNoRetry ==
    [][ /\ IsPrefix(StageTrace', <<"ExtractSchema", "FormatSchema",
                                   "RenderSchema">>)
        /\ StageFailed' => (pc' = "exited" /\ exitCode'[run'] = Some(1))
        /\ (StageFailed /\ run' = run) =>
              (calls' = calls /\ files' = files /\ artifacts' = artifacts)
      ]_vars

\* C22 witness: FormatSchema returned an error after a successful
\* ExtractSchema; RenderSchema was not called and nothing was written.
C22_Witness ==
    /\ pc = "exited"
    /\ flags.formatToFile # ""
    /\ flags.renderToFile # ""
    /\ StageTrace = <<"ExtractSchema", "FormatSchema">>
    /\ StageFailed
    /\ exitCode[run] = Some(1)
    /\ artifacts[run] = [format |-> None, render |-> None]

\* the target of the run cannot do what the command line asks for
Unsupported ==
    /\ target # None
    /\ \/ ~Capabilities(target[1]).Format
       \/ flags.renderToFile # "" /\ ~Capabilities(target[1]).Render

\* C23: RenderSchema is called only on a target whose Capabilities().Render
\* is true and FormatSchema only on one whose Capabilities().Format is true;
\* a run whose target cannot do what is asked never calls ExtractSchema and
\* writes no file, and once the capabilities are checked it has exited with
\* status 1.
C23_CapabilitiesGuardStages ==
    /\ (\E i \in DOMAIN calls : calls[i] = "RenderSchema")
          => Capabilities(target[1]).Render
    /\ (\E i \in DOMAIN calls : calls[i] = "FormatSchema")
          => Capabilities(target[1]).Format
    /\ Unsupported =>
          /\ \A i \in DOMAIN calls : calls[i] = "Capabilities"
          /\ artifacts[run] = [format |-> None, render |-> None]
          /\ run = 1 => files = [format |-> None, render |-> None]
          /\ calls # <<>> => (pc = "exited" /\ exitCode[run] = Some(1))

\* C23 witness: a run asked the json target to render and has exited after
\* the capability check.
C23_Witness ==
    /\ pc = "exited"
    /\ target = Some("json")
    /\ flags.renderToFile # ""
    /\ flags.formatToFile # ""
    /\ calls = <<"Capabilities">>
    /\ exitCode[run] = Some(1)

\* the current run printed the given message as the context of an error
Printed(context) ==
    \E i \in DOMAIN stderr : Len(stderr[i]) >= 2 /\ stderr[i][2] = context

\* C30: with both --format-to-file and --render-to-file, the formatted
\* artifact is in its file when RenderSchema is called; when RenderSchema or
\* the write of the rendering fails, the run exits with status 1 and the
\* formatted file still holds the artifact; a run whose RenderSchema failed
\* wrote no render file.
C30_FormatFileBeforeRender ==
    (flags.formatToFile # "" /\ flags.renderToFile # ""
        /\ \E i \in DOMAIN calls : calls[i] = "RenderSchema")
    => /\ files.format = Some(fs[1].Data)
       /\ artifacts[run].format = Some(fs[1].Data)
       /\ (Printed("Rendering schema") \/ Printed("Writing to file"))
             => (pc = "exited" /\ exitCode[run] = Some(1))
       /\ Printed("Rendering schema") =>
             /\ artifacts[run].render = None
             /\ run = 1 => files.render = None

\* C30 witness: both files were asked for, the formatted artifact was
\* written, and then d2lib.Compile failed.
C30_Witness ==
    /\ pc = "exited"
    /\ flags.formatToFile # ""
    /\ flags.renderToFile # ""
    /\ run = 1
    /\ calls = <<"Capabilities", "ExtractSchema", "FormatSchema",
                 "RenderSchema">>
    /\ Printed("Rendering schema")
    /\ files.format # None
    /\ files.format[1] # <<>>
    /\ files.render = None

\* the source and target tags the README documents
DocumentedSources == {"postgres", "mysql", "cockroach", "clickhouse", "mongodb"}

DocumentedTargets == {"d2", "plantuml", "mermaid", "json"}

\* C25 as claimed: a documented --source or --target tag is never rejected as
\* unknown and yields the backend of that name; any other tag is rejected
\* with "unknown source" or "unknown target" and status 1 before
\* ExtractSchema is called.
C25_DocumentedTagsAccepted ==
    /\ flags.source \in DocumentedSources => ~Printed("unknown source")
    /\ flags.target \in DocumentedTargets => ~Printed("unknown target")
    /\ source # None => source[1].kind = flags.source
    /\ target # None => target[1] = flags.target
    /\ (pc \notin {"main", "pickSource"}
            /\ flags.source \notin DocumentedSources /\ ~Usage(flags))
          => (Printed("unknown source") /\ exitCode[run] = Some(1)
                /\ StageTrace = <<>>)
    /\ (pc \notin {"main", "pickSource", "pickTarget"}
            /\ flags.target \notin DocumentedTargets /\ ~Usage(flags)
            /\ ~Printed("unknown source") /\ source # None)
          => (Printed("unknown target") /\ exitCode[run] = Some(1)
                /\ StageTrace = <<>>)

\* the ExtractSchema calls made on a cockroach or mysql Source
TwoQueryCalls ==
    {i \in ExtractCalls : source[1].kind \in {"cockroach", "mysql"}}

\* the layers of an error that wrap another one
Wrappers(err) == {err[k] : k \in 1..(Len(err) - 1)}

\* C27: ExtractSchema of cockroach and mysql sends the table query first and
\* the reference query second. When the table query fails the error is
\* "extracting tables" around the cause and the reference query is not sent;
\* when the reference query fails the error is "extracting references"
\* around the cause; neither error carries the other wrapper, and the cause
\* of the driver is the innermost error of the chain.
C27_TablesThenReferences ==
    \A i \in TwoQueryCalls :
        LET r == results[i]
        IN  /\ IsPrefix(r.queries, <<"tables", "references">>)
            /\ r.queries # <<>>
            /\ r.tablesFault # "none" =>
                  /\ r.queries = <<"tables">>
                  /\ r.err[1] = "extracting tables"
                  /\ "extracting references" \notin Wrappers(r.err)
                  /\ r.err[Len(r.err)] = "driver"
            /\ (r.tablesFault = "none" /\ r.referencesFault # "none") =>
                  /\ r.queries = <<"tables", "references">>
                  /\ r.err[1] = "extracting references"
                  /\ "extracting tables" \notin Wrappers(r.err)
                  /\ r.err[Len(r.err)] = "driver"
            /\ (r.tablesFault = "none" /\ r.referencesFault = "none") =>
                  r.err = <<>>

\* C27 witness: on one mysql Source over a catalog with a foreign key, one
\* call failed in the table query and another in scanning a reference row.
C27_Witness ==
    /\ source[1].kind = "mysql"
    /\ catalog.references # <<>>
    /\ \E i, j \in TwoQueryCalls :
          /\ results[i].tablesFault = "query"
          /\ results[i].err[1] = "extracting tables"
          /\ results[j].referencesFault = "scan"
          /\ results[j].err[1] = "extracting references"

\* the conversions made
ConvertCalls ==
    {i \in DOMAIN results : results[i].op = "tableRowsToSchemaTables"}

\* "<namespace>.<table>" of a row
QualifiedName(row) == row.tableSchema \o <<46>> \o row.tableName

\* the indices, in ascending order, of the rows with the given qualified name
RowsOfName(rows, name) ==
    LET S == {i \in DOMAIN rows : QualifiedName(rows[i]) = name}
    IN  [k \in 1..Cardinality(S) |->
            CHOOSE i \in S : Cardinality({j \in S : j <= i}) = k]

\* C24: whatever the order of the rows, the Tables returned hold each
\* qualified name once, no Table name is empty, and each Table holds one
\* Column per input row of its qualified name and no other Column, so that
\* every row gave one Column to one Table.
C24_OneTablePerQualifiedName ==
    \A i \in ConvertCalls :
        LET rows == results[i].rows
            ts == results[i].tables.items
        IN  /\ \A a, b \in DOMAIN ts : ts[a].Name = ts[b].Name => a = b
            /\ \A a \in DOMAIN ts : ts[a].Name # <<>>
            /\ \A k \in DOMAIN rows :
                  \E a \in DOMAIN ts : ts[a].Name = QualifiedName(rows[k])
            /\ \A a \in DOMAIN ts :
                  /\ Len(ts[a].Columns.items) = Len(RowsOfName(rows, ts[a].Name))
                  /\ Len(ts[a].Columns.items) >= 1
                  /\ \A c \in DOMAIN ts[a].Columns.items :
                        \E k \in DOMAIN rows :
                            /\ QualifiedName(rows[k]) = ts[a].Name
                            /\ ts[a].Columns.items[c].Name = rows[k].columnName

\* C24 witness: the rows of one table were given with a row of another table
\* between them, and a row with an empty namespace and table was converted.
C24_Witness ==
    \E i \in ConvertCalls :
        LET rows == results[i].rows
        IN  /\ Len(rows) = 3
            /\ QualifiedName(rows[1]) = QualifiedName(rows[3])
            /\ QualifiedName(rows[1]) # QualifiedName(rows[2])
            /\ rows[1] # rows[3]
            /\ QualifiedName(rows[2]) = <<46>>
            /\ Len(results[i].tables.items) = 2

\* C28: inside each Table the Columns are in the order in which the rows of
\* the Table were given: the k-th Column is the Column of the k-th row of the
\* Table's qualified name.
C28_ColumnsInRowOrder ==
    \A i \in ConvertCalls :
        LET rows == results[i].rows
            ts == results[i].tables.items
        IN  \A a \in DOMAIN ts :
                LET idx == RowsOfName(rows, ts[a].Name)
                    cs == ts[a].Columns.items
                IN  /\ Len(cs) = Len(idx)
                    /\ \A k \in DOMAIN cs : cs[k].Name = rows[idx[k]].columnName

\* C28 witness: a table was given as name, then a row of another table, then
\* id; its Columns are name, id, neither sorted by name nor reversed rows of
\* a sorted input.
C28_Witness ==
    \E i \in ConvertCalls :
        LET rows == results[i].rows
            ts == results[i].tables.items
        IN  /\ Len(rows) = 3
            /\ QualifiedName(rows[1]) = QualifiedName(rows[3])
            /\ QualifiedName(rows[1]) # QualifiedName(rows[2])
            /\ rows[1].columnName = <<110, 97, 109, 101>>
            /\ rows[3].columnName = <<105, 100>>
            /\ \E a \in DOMAIN ts :
                  /\ Len(ts[a].Columns.items) = 2
                  /\ ts[a].Columns.items[1].Name = <<110, 97, 109, 101>>
                  /\ ts[a].Columns.items[2].Name = <<105, 100>>

\* C29 as claimed: the rows that gave their Columns to one Table are rows of
\* one (namespace, table) pair, also when a name holds a ".": there are as
\* many Tables as the rows have (namespace, table) pairs.
C29_PairsNeverMerged ==
    \A i \in ConvertCalls :
        LET rows == results[i].rows
        IN  Len(results[i].tables.items)
                = Cardinality({ <<rows[k].tableSchema, rows[k].tableName>> :
                                    k \in DOMAIN rows })

====
